---- MODULE Spec2Model ----
(***************************************************************************)
(* AI Feature Scaffolder: the input processor (validation, sanitization,   *)
(* keyword extraction, spec building) and the SPARC phase generator.       *)
(*                                                                         *)
(* Text is a sequence of runs [code, count]: "code" is a UTF-16 code unit  *)
(* and "count" the number of consecutive copies of it.  Ordinary text has  *)
(* count 1 everywhere; long paddings are a single run of a code unit that  *)
(* occurs at no edge or doubled position of any literal the code searches  *)
(* for ("x", or a space), so every string operation below gives the result *)
(* it gives on the expanded string.                                        *)
(***************************************************************************)
EXTENDS Integers, Sequences, FiniteSets, TLC

VARIABLES
    description,   \* the description typed into the request form
    edits,         \* number of changes made to the description
    validation,    \* ValidationResult returned by a call of validateInput
    processed,     \* ProcessedInput returned by process
    spec,          \* StructuredSpec returned by a call of generateStructuredSpec
    pc,            \* where the caller is: idle, validated, processed, specified,
                   \* spec-rejected, supplied, extracted, categorized, generating
                   \* (inside generateAllPhases), returned, rejected, phase,
                   \* generate (inside generate), bundled, generate-rejected
    sparcFiles,    \* the sparcFiles array of the running generateAllPhases
    contentCalls,  \* phases generatePhaseContent was invoked for, in call order
    calledPhase,   \* the phase argument of the direct generatePhase call
    result,        \* what the last generator call returned or threw
    answer,        \* what a direct call of extractEntities or categorizeProject
                   \* returned
    formData,      \* the request form's fields other than the description
    aiPc,          \* where a generateContent call is: idle, attempting (a provider
                   \* call is due), waiting (in the backoff delay), done
    prompt,        \* the prompt argument of generateContent
    provider,      \* the provider argument of generateContent
    attempt,       \* the loop counter of callAIWithRetry
    providerCalls, \* the outcomes of the provider calls made, in call order
    delays,        \* the arguments of the delay calls made, in call order
    aiResult,      \* the AIResponse generateContent returned
    response,      \* the HTTP response of POST /api/generate: status and body
    inflight       \* the requests served concurrently: for each its body, where
                   \* its handler is, and the handler's local values

vars == <<description, edits, validation, processed, spec, pc, sparcFiles,
          contentCalls, calledPhase, result, answer, formData, aiPc, prompt, provider,
          attempt, providerCalls, delays, aiResult, response, inflight>>

\* The variables of the AI service.
aiVars == <<aiPc, prompt, provider, attempt, providerCalls, delays, aiResult>>

\* The variables of everything else.
appVars == <<description, edits, validation, processed, spec, pc, sparcFiles,
             contentCalls, calledPhase, result, answer, formData, response>>

\* ---------------------------------------------------------------- bounds
\* Most text fragments typed into one description.
MaxFrags == 3

\* Most requests served concurrently.
MaxRequests == 2

\* ------------------------------------------------------ string literals
\* The UTF-16 code units of the string literals of the source and of the
\* typed fragments.
Utf16 ==
     ("<script" :> <<60,115,99,114,105,112,116>>) @@
     ("</script>" :> <<60,47,115,99,114,105,112,116,62>>) @@
     ("blog application" :> <<98,108,111,103,32,97,112,112,108,105,99,97,116,105,111,110>>) @@
     ("user authentication" :> <<117,115,101,114,32,97,117,116,104,101,110,116,105,99,97,116,105,111,110>>) @@
     ("todo app" :> <<116,111,100,111,32,97,112,112>>) @@
     ("node.js" :> <<110,111,100,101,46,106,115>>) @@
     ("postgresql" :> <<112,111,115,116,103,114,101,115,113,108>>) @@
     ("redis" :> <<114,101,100,105,115>>) @@
     ("docker" :> <<100,111,99,107,101,114>>) @@
     ("react" :> <<114,101,97,99,116>>) @@
     ("user registration" :> <<117,115,101,114,32,114,101,103,105,115,116,114,97,116,105,111,110>>) @@
     ("product catalog" :> <<112,114,111,100,117,99,116,32,99,97,116,97,108,111,103>>) @@
     ("payment processing" :> <<112,97,121,109,101,110,116,32,112,114,111,99,101,115,115,105,110,103>>) @@
     ("shopping cart" :> <<115,104,111,112,112,105,110,103,32,99,97,114,116>>) @@
     ("order management" :> <<111,114,100,101,114,32,109,97,110,97,103,101,109,101,110,116>>) @@
     ("admin dashboard" :> <<97,100,109,105,110,32,100,97,115,104,98,111,97,114,100>>) @@
     ("email notifications" :> <<101,109,97,105,108,32,110,111,116,105,102,105,99,97,116,105,111,110,115>>) @@
     ("mobile responsive" :> <<109,111,98,105,108,101,32,114,101,115,112,111,110,115,105,118,101>>) @@
     ("seo optimization" :> <<115,101,111,32,111,112,116,105,109,105,122,97,116,105,111,110>>) @@
     ("analytics integration" :> <<97,110,97,108,121,116,105,99,115,32,105,110,116,101,103,114,97,116,105,111,110>>) @@
     ("< 10ms latency" :> <<60,32,49,48,109,115,32,108,97,116,101,110,99,121>>) @@
     ("multi-factor authentication" :> <<109,117,108,116,105,45,102,97,99,116,111,114,32,97,117,116,104,101,110,116,105,99,97,116,105,111,110>>) @@
     ("e-commerce" :> <<101,45,99,111,109,109,101,114,99,101>>) @@
     ("shopping" :> <<115,104,111,112,112,105,110,103>>) @@
     ("payment" :> <<112,97,121,109,101,110,116>>) @@
     ("microservices" :> <<109,105,99,114,111,115,101,114,118,105,99,101,115>>) @@
     ("financial trading" :> <<102,105,110,97,110,99,105,97,108,32,116,114,97,100,105,110,103>>) @@
     ("todo" :> <<116,111,100,111>>) @@
     ("blog" :> <<98,108,111,103>>) @@
     ("trading" :> <<116,114,97,100,105,110,103>>) @@
     ("<script>" :> <<60,115,99,114,105,112,116,62>>) @@
     ("<SCRIPT>" :> <<60,83,67,82,73,80,84,62>>) @@
     ("<" :> <<60>>) @@
     ("<b>" :> <<60,98,62>>) @@
     ("script>" :> <<115,99,114,105,112,116,62>>) @@
     ("blog " :> <<98,108,111,103,32>>) @@
     ("application" :> <<97,112,112,108,105,99,97,116,105,111,110>>) @@
     (" " :> <<32>>) @@
     ("</b>" :> <<60,47,98,62>>) @@
     ("Blog Application" :> <<66,108,111,103,32,65,112,112,108,105,99,97,116,105,111,110>>) @@
     ("E-commerce Platform" :> <<69,45,99,111,109,109,101,114,99,101,32,80,108,97,116,102,111,114,109>>) @@
     ("Todo Application" :> <<84,111,100,111,32,65,112,112,108,105,99,97,116,105,111,110>>) @@
     ("Trading Platform" :> <<84,114,97,100,105,110,103,32,80,108,97,116,102,111,114,109>>) @@
     ("Web Application" :> <<87,101,98,32,65,112,112,108,105,99,97,116,105,111,110>>) @@
     ("Todo app" :> <<84,111,100,111,32,97,112,112>>) @@
     ("Node.js, PostgreSQL, Redis, Docker" :> <<78,111,100,101,46,106,115,44,32,80,111,115,116,103,114,101,83,81,76,44,32,82,101,100,105,115,44,32,68,111,99,107,101,114>>) @@
     ("Multi-Factor Authentication" :> <<77,117,108,116,105,45,70,97,99,116,111,114,32,65,117,116,104,101,110,116,105,99,97,116,105,111,110>>)

Lit(codes) == [i \in DOMAIN codes |-> [code |-> codes[i], count |-> 1]]

Run(c, n) == << [code |-> c, count |-> n] >>

Min(S) == CHOOSE m \in S : \A n \in S : m <= n

Max(S) == CHOOSE m \in S : \A n \in S : m >= n

\* ------------------------------------------------- JavaScript strings
\* String.prototype.length: the number of UTF-16 code units.
RECURSIVE StrLength(_)
StrLength(s) == IF s = <<>> THEN 0 ELSE Head(s).count + StrLength(Tail(s))

\* WhiteSpace and LineTerminator code units, as String.prototype.trim sees them.
WhiteSpaceCodes ==
    {9, 10, 11, 12, 13, 32, 160, 5760, 8232, 8233, 8239, 8287, 12288, 65279}
        \cup (8192..8202)

\* The code units the regular expression atom "." does not match.
LineTerminatorCodes == {10, 13, 8232, 8233}

trim(s) ==
    LET keep == {i \in DOMAIN s : s[i].code \notin WhiteSpaceCodes}
    IN  IF keep = {} THEN <<>> ELSE SubSeq(s, Min(keep), Max(keep))

\* The lowercase form of one run: an ASCII capital becomes its small letter;
\* U+0130, capital I with dot above, becomes the two code units U+0069 U+0307;
\* every other code unit used maps to itself.
LowerRun(run) ==
    IF run.code \in 65..90 THEN <<[run EXCEPT !.code = @ + 32]>>
    ELSE IF run.code = 304
    THEN [k \in 1..(2 * run.count) |->
            [code |-> IF k % 2 = 1 THEN 105 ELSE 775, count |-> 1]]
    ELSE <<run>>

\* String.prototype.toLowerCase on the code units of the model's alphabet.
RECURSIVE toLowerCase(_)
toLowerCase(s) ==
    IF s = <<>> THEN <<>> ELSE LowerRun(Head(s)) \o toLowerCase(Tail(s))

\* The case folding of a regular expression with the i flag and without the u
\* flag: code unit by code unit, so positions are kept; of the code units used
\* only the ASCII letters have a case variant.
Canonicalize(s) ==
    [i \in DOMAIN s |->
        IF s[i].code \in 65..90 THEN [s[i] EXCEPT !.code = @ + 32] ELSE s[i]]

\* The literal lit (code units) occurs in s at position i.
LiteralAt(s, i, lit) ==
    /\ i + Len(lit) - 1 <= Len(s)
    /\ \A k \in DOMAIN lit : s[i + k - 1].code = lit[k] /\ s[i + k - 1].count = 1

\* String.prototype.includes
includes(s, lit) == \E i \in DOMAIN s : LiteralAt(s, i, lit)

\* The literal occurs at i, ignoring case (the i flag).
LiteralAtIgnoreCase(s, i, lit) == LiteralAt(Canonicalize(s), i, lit)

\* --------------------------------------------------------- sanitizeInput
\* Where a match of /<script[^>]*>.*?<\/script>/i that starts at i ends, or 0.
\* [^>]* runs to the first ">" after "<script"; the lazy .*? runs to the first
\* "</script>" after it and crosses no line terminator.
ScriptMatchEnd(s, i) ==
    IF ~LiteralAtIgnoreCase(s, i, Utf16["<script"]) THEN 0
    ELSE LET gts == {j \in (i + 7)..Len(s) : s[j].code = 62}
         IN  IF gts = {} THEN 0
             ELSE LET j == Min(gts)
                      closes == {k \in (j + 1)..Len(s) :
                                    LiteralAtIgnoreCase(s, k, Utf16["</script>"])}
                  IN  IF closes = {} THEN 0
                      ELSE LET k == Min(closes)
                           IN  IF \A m \in (j + 1)..(k - 1) :
                                      s[m].code \notin LineTerminatorCodes
                               THEN k + 8
                               ELSE 0

\* .replace(/<script[^>]*>.*?<\/script>/gi, ''), scanning from position i.
RECURSIVE ReplaceScriptFrom(_, _)
ReplaceScriptFrom(s, i) ==
    IF i > Len(s) THEN <<>>
    ELSE LET e == ScriptMatchEnd(s, i)
         IN  IF e > 0 THEN ReplaceScriptFrom(s, e + 1)
             ELSE <<s[i]>> \o ReplaceScriptFrom(s, i + 1)

ReplaceScript(s) == ReplaceScriptFrom(s, 1)

\* Mutation: the tag pattern is /<[^<>]*>/, which stops at a nested "<".
TagMatchEnd_noNested(s, i) ==
    IF s[i].code # 60 THEN 0
    ELSE LET gts == {j \in (i + 1)..Len(s) : s[j].code = 62}
         IN  IF gts = {} THEN 0
             ELSE IF \E m \in (i + 1)..(Min(gts) - 1) : s[m].code = 60 THEN 0
             ELSE Min(gts)

\* Where a match of /<[^>]*>/ that starts at i ends, or 0.
TagMatchEnd(s, i) ==
    IF s[i].code # 60 THEN 0
    ELSE LET gts == {j \in (i + 1)..Len(s) : s[j].code = 62}
         IN  IF gts = {} THEN 0 ELSE Min(gts)

\* .replace(/<[^>]*>/g, ''), scanning from position i.
RECURSIVE ReplaceTagsFrom(_, _)
ReplaceTagsFrom(s, i) ==
    IF i > Len(s) THEN <<>>
    ELSE LET e == TagMatchEnd(s, i)
         IN  IF e > 0 THEN ReplaceTagsFrom(s, e + 1)
             ELSE <<s[i]>> \o ReplaceTagsFrom(s, i + 1)

\* Mutation: the g flag is missing, only the first tag is removed.
ReplaceTags_firstOnly(s) ==
    LET starts == {i \in DOMAIN s : TagMatchEnd(s, i) > 0}
    IN  IF starts = {} THEN s
        ELSE SubSeq(s, 1, Min(starts) - 1)
             \o SubSeq(s, TagMatchEnd(s, Min(starts)) + 1, Len(s))

ReplaceTags(s) == ReplaceTagsFrom(s, 1)

sanitizeInput(input) == trim(ReplaceTags(ReplaceScript(input)))

\* --------------------------------------------------------- validateInput
MIN_LENGTH == 10

MAX_LENGTH == 10000

\* input.includes('\uFFFD') || !/^[\x00-\x7F\u0080-\uFFFF]*$/.test(input)
InvalidEncoding(input) ==
    \/ includes(input, <<65533>>)
    \/ ~ \A i \in DOMAIN input :
            input[i].code \in 0..127 \/ input[i].code \in 128..65535

\* Mutation: the emptiness test does not trim.
IsEmptyInput_noTrim(input) == input = <<>>

\* !input || input.trim().length === 0
IsEmptyInput(input) == input = <<>> \/ StrLength(trim(input)) = 0

\* Mutation: off by one in the minimum-length comparison.
TooShort_offByOne(input) == StrLength(input) < MIN_LENGTH - 1

TooShort(input) == StrLength(input) < MIN_LENGTH

TooLong(input) == StrLength(input) > MAX_LENGTH

\* Mutation: the checks are chained with else-if, so the first failing check
\* hides the later ones.
validateInput_firstErrorOnly(input) ==
    IF IsEmptyInput(input)
    THEN [isValid |-> FALSE, errors |-> <<"Input is required">>]
    ELSE LET errors ==
                 IF TooShort(input) THEN <<"Input must be at least 10 characters">>
                 ELSE IF TooLong(input)
                 THEN <<"Input exceeds maximum length of 10000 characters">>
                 ELSE IF InvalidEncoding(input)
                 THEN <<"Invalid character encoding detected">>
                 ELSE <<>>
         IN  [isValid |-> errors = <<>>,
              errors |-> errors,
              sanitizedInput |-> sanitizeInput(input)]

\* Mutation: a length error returns at once, before sanitization.
validateInput_returnsOnLengthError(input) ==
    IF IsEmptyInput(input)
    THEN [isValid |-> FALSE, errors |-> <<"Input is required">>]
    ELSE IF TooLong(input)
    THEN [isValid |-> FALSE,
          errors |-> <<"Input exceeds maximum length of 10000 characters">>]
    ELSE LET e1 == IF TooShort(input)
                   THEN <<"Input must be at least 10 characters">> ELSE <<>>
             errors == IF InvalidEncoding(input)
                       THEN e1 \o <<"Invalid character encoding detected">>
                       ELSE e1
         IN  [isValid |-> errors = <<>>,
              errors |-> errors,
              sanitizedInput |-> sanitizeInput(input)]

validateInput(input) ==
    IF IsEmptyInput(input)
    THEN [isValid |-> FALSE, errors |-> <<"Input is required">>]
    ELSE LET e1 == IF TooShort(input)
                   THEN <<"Input must be at least 10 characters">> ELSE <<>>
             e2 == IF TooLong(input)
                   THEN e1 \o <<"Input exceeds maximum length of 10000 characters">>
                   ELSE e1
             errors == IF InvalidEncoding(input)
                       THEN e2 \o <<"Invalid character encoding detected">>
                       ELSE e2
         IN  [isValid |-> errors = <<>>,
              errors |-> errors,
              sanitizedInput |-> sanitizeInput(input)]

\* ------------------------------------------------------- extractEntities
Select(keywords, lowerInput) ==
    SelectSeq(keywords, LAMBDA k : includes(lowerInput, Utf16[k]))

techKeywords == <<"node.js", "postgresql", "redis", "docker", "react">>

\* Mutation: the keyword is emitted as it stands in the table.
CanonicalTech_asKeyword(tech) == tech

CanonicalTech(tech) ==
    CASE tech = "node.js" -> "Node.js"
      [] tech = "postgresql" -> "PostgreSQL"
      [] tech = "redis" -> "Redis"
      [] tech = "docker" -> "Docker"
      [] tech = "react" -> "React"
      [] OTHER -> tech

requirements ==
    <<"user registration", "product catalog", "payment processing",
      "shopping cart", "order management", "admin dashboard",
      "email notifications", "mobile responsive", "seo optimization",
      "analytics integration">>

\* Mutation: the keywords are looked for in the input as it was typed.
extractEntities_caseSensitive(input) ==
    LET lowerInput == input
        techs == Select(techKeywords, lowerInput)
        cons == Select(<<"< 10ms latency", "multi-factor authentication">>, lowerInput)
    IN  [features |-> Select(<<"blog application", "user authentication", "todo app">>,
                             lowerInput),
         technologies |-> [i \in DOMAIN techs |-> CanonicalTech(techs[i])],
         requirements |-> Select(requirements, lowerInput),
         constraints |-> [i \in DOMAIN cons |->
                            IF cons[i] = "multi-factor authentication"
                            THEN "Multi-factor authentication" ELSE cons[i]]]

extractEntities(input) ==
    LET lowerInput == toLowerCase(input)
        techs == Select(techKeywords, lowerInput)
        cons == Select(<<"< 10ms latency", "multi-factor authentication">>, lowerInput)
    IN  [features |-> Select(<<"blog application", "user authentication", "todo app">>,
                             lowerInput),
         technologies |-> [i \in DOMAIN techs |-> CanonicalTech(techs[i])],
         requirements |-> Select(requirements, lowerInput),
         constraints |-> [i \in DOMAIN cons |->
                            IF cons[i] = "multi-factor authentication"
                            THEN "Multi-factor authentication" ELSE cons[i]]]

\* ----------------------------------------------------- categorizeProject
\* Mutation: the microservices rule is tried before the e-commerce rule.
categorizeProject_microservicesFirst(input) ==
    LET lowerInput == toLowerCase(input)
    IN  IF \/ includes(lowerInput, Utf16["microservices"])
           \/ includes(lowerInput, Utf16["financial trading"])
        THEN [type |-> "microservices", complexity |-> "enterprise"]
        ELSE IF \/ includes(lowerInput, Utf16["e-commerce"])
                \/ includes(lowerInput, Utf16["shopping"])
                \/ includes(lowerInput, Utf16["payment"])
        THEN [type |-> "e-commerce", complexity |-> "high"]
        ELSE IF includes(lowerInput, Utf16["todo"]) /\ StrLength(lowerInput) < 50
        THEN [type |-> "utility", complexity |-> "low"]
        ELSE [type |-> "web-application", complexity |-> "medium"]

categorizeProject(input) ==
    LET lowerInput == toLowerCase(input)
    IN  IF \/ includes(lowerInput, Utf16["e-commerce"])
           \/ includes(lowerInput, Utf16["shopping"])
           \/ includes(lowerInput, Utf16["payment"])
        THEN [type |-> "e-commerce", complexity |-> "high"]
        ELSE IF \/ includes(lowerInput, Utf16["microservices"])
                \/ includes(lowerInput, Utf16["financial trading"])
        THEN [type |-> "microservices", complexity |-> "enterprise"]
        ELSE IF includes(lowerInput, Utf16["todo"]) /\ StrLength(lowerInput) < 50
        THEN [type |-> "utility", complexity |-> "low"]
        ELSE [type |-> "web-application", complexity |-> "medium"]

\* ------------------------------------------------ generateStructuredSpec
\* Mutation: the four checks are made in the reverse order.
extractProjectName_reversed(input) ==
    LET lowerInput == toLowerCase(input)
    IN  IF includes(lowerInput, Utf16["trading"]) THEN "Trading Platform"
        ELSE IF includes(lowerInput, Utf16["todo"]) THEN "Todo Application"
        ELSE IF includes(lowerInput, Utf16["e-commerce"]) THEN "E-commerce Platform"
        ELSE IF includes(lowerInput, Utf16["blog"]) THEN "Blog Application"
        ELSE "Web Application"

extractProjectName(input) ==
    LET lowerInput == toLowerCase(input)
    IN  IF includes(lowerInput, Utf16["blog"]) THEN "Blog Application"
        ELSE IF includes(lowerInput, Utf16["e-commerce"]) THEN "E-commerce Platform"
        ELSE IF includes(lowerInput, Utf16["todo"]) THEN "Todo Application"
        ELSE IF includes(lowerInput, Utf16["trading"]) THEN "Trading Platform"
        ELSE "Web Application"

\* Array.prototype.join: the elements with the separator between them, as the
\* pieces of the joined text.
RECURSIVE join(_, _)
join(list, sep) ==
    IF list = <<>> THEN <<>>
    ELSE IF Len(list) = 1 THEN <<list[1]>>
    ELSE <<list[1], sep>> \o join(Tail(list), sep)

generateDescription(input, entities) ==
    <<"A comprehensive application featuring ">> \o join(entities.features, ", ")

\* [...new Set(list)]: duplicates removed, first occurrence kept.
RECURSIVE Dedupe(_)
Dedupe(list) ==
    IF list = <<>> THEN <<>>
    ELSE LET front == Dedupe(SubSeq(list, 1, Len(list) - 1))
             last == list[Len(list)]
         IN  IF \E i \in DOMAIN front : front[i] = last
             THEN front ELSE Append(front, last)

\* Mutation: the concatenated list is returned without removing duplicates.
suggestTechnologies_noDedupe(category, entities) ==
    LET base == <<"React", "Node.js">>
        more == IF category.complexity = "high" \/ category.complexity = "enterprise"
                THEN base \o <<"PostgreSQL", "Redis">> ELSE base
    IN  more \o entities.technologies

suggestTechnologies(category, entities) ==
    LET base == <<"React", "Node.js">>
        more == IF category.complexity = "high" \/ category.complexity = "enterprise"
                THEN base \o <<"PostgreSQL", "Redis">> ELSE base
    IN  Dedupe(more \o entities.technologies)

generateAcceptanceCriteria(entities) ==
    [i \in DOMAIN entities.features |->
        <<"User should be able to use ", entities.features[i], " successfully">>]

estimateTimeline(category, entities) ==
    [phases |-> <<"Planning", "Development", "Testing", "Deployment">>,
     totalWeeks |-> IF category.complexity = "low" THEN 2
                    ELSE IF category.complexity = "medium" THEN 8
                    ELSE IF category.complexity = "high" THEN 16 ELSE 24]

generateStructuredSpec(input) ==
    LET entities == extractEntities(input)
        category == categorizeProject(input)
    IN  [projectName |-> extractProjectName(input),
         description |-> generateDescription(input, entities),
         features |-> entities.features,
         technologies |-> [suggested |-> suggestTechnologies(category, entities),
                           alternatives |-> <<>>],
         requirements |-> entities.requirements,
         constraints |-> entities.constraints,
         acceptanceCriteria |-> generateAcceptanceCriteria(entities),
         estimatedTimeline |-> estimateTimeline(category, entities)]

\* --------------------------------------------------------------- process
\* JavaScript null.
Null == [null |-> TRUE]

\* The text process hands to generateStructuredSpec.
ProcessSpecInput(request, validationResult) == request.description

process(request) ==
    LET validationResult == validateInput(request.description)
    IN  IF ~validationResult.isValid
        THEN [isValid |-> FALSE, errors |-> validationResult.errors, data |-> Null]
        ELSE [isValid |-> TRUE,
              data |-> generateStructuredSpec(
                           ProcessSpecInput(request, validationResult))
                       @@ [requestMetadata |->
                            [complexity |-> request.complexity,
                             framework |-> request.framework,
                             includeTests |-> request.includeTests,
                             includeDocs |-> request.includeDocs,
                             aiProvider |-> request.aiProvider]]]

\* -------------------------------------------------------- SparcGenerator
\* Generated text is the sequence of its pieces: the literal parts of a template
\* and the values interpolated between them.  Fixed boilerplate sections are one
\* piece each, named by their heading.
validPhases == <<"specification", "pseudocode", "architecture", "refinement", "completion">>

\* Mutation: the 0-based index is used as the phase number.
PhaseNumberOf_zeroBased(phase) ==
    IF \E i \in DOMAIN validPhases : validPhases[i] = phase
    THEN (CHOOSE i \in DOMAIN validPhases : validPhases[i] = phase) - 1
    ELSE 0

\* Array.prototype.indexOf + 1
PhaseNumberOf(phase) ==
    IF \E i \in DOMAIN validPhases : validPhases[i] = phase
    THEN CHOOSE i \in DOMAIN validPhases : validPhases[i] = phase
    ELSE 0

getPhaseTitle(phase) ==
    CASE phase = "specification" -> "Specification"
      [] phase = "pseudocode" -> "Pseudocode"
      [] phase = "architecture" -> "Architecture"
      [] phase = "refinement" -> "Refinement"
      [] phase = "completion" -> "Completion"

\* Mutation: only the feature count decides.
determineComplexity_featuresOnly(s) ==
    LET featureCount == Len(s.features)
    IN  IF featureCount <= 2 THEN "low"
        ELSE IF featureCount <= 5 THEN "medium"
        ELSE "high"

determineComplexity(s) ==
    LET featureCount == Len(s.features)
        hasComplexFeatures == Len(s.requirements) > 3 \/ Len(s.constraints) > 1
    IN  IF featureCount <= 2 /\ ~hasComplexFeatures THEN "low"
        ELSE IF featureCount <= 5 /\ ~hasComplexFeatures THEN "medium"
        ELSE "high"

getTechnologyDescription(tech) ==
    CASE tech = "React" -> "Frontend user interface framework"
      [] tech = "Node.js" -> "Backend JavaScript runtime"
      [] tech = "PostgreSQL" -> "Relational database management system"
      [] tech = "Redis" -> "In-memory data structure store for caching"
      [] tech = "Docker" -> "Containerization platform"
      [] tech = "Express" -> "Web application framework for Node.js"
      [] OTHER -> "Technology component"

\* text.replace(/\s+/g, ''), on the code units of a table string.
StripWhitespace(text) == SelectSeq(Utf16[text], LAMBDA c : c \notin WhiteSpaceCodes)

\* text.toLowerCase(), on the code units of a table string.
LowerCodes(text) ==
    [i \in DOMAIN Utf16[text] |->
        IF Utf16[text][i] \in 65..90 THEN Utf16[text][i] + 32 ELSE Utf16[text][i]]

\* list.map(f).join(sep) where f yields several pieces per element.
RECURSIVE joinPieces(_, _)
joinPieces(list, sep) ==
    IF list = <<>> THEN <<>>
    ELSE IF Len(list) = 1 THEN list[1]
    ELSE list[1] \o <<sep>> \o joinPieces(Tail(list), sep)

\* Mutation: the last matching element is taken.
FindOr_last(list, among, fallback) ==
    LET hits == {i \in DOMAIN list : list[i] \in among}
    IN  IF hits = {} THEN fallback ELSE list[Max(hits)]

\* Array.prototype.find(t => among.includes(t)) || fallback
FindOr(list, among, fallback) ==
    LET hits == {i \in DOMAIN list : list[i] \in among}
    IN  IF hits = {} THEN fallback ELSE list[Min(hits)]

Heading(phaseNumber, title, projectName) ==
    <<"# Phase ", ToString(phaseNumber), ": ", title, " - ", projectName>>

generateSpecificationContent(phaseNumber, s) ==
    Heading(phaseNumber, "Specification", s.projectName)
    \o <<"\n\n## Project Overview\n">> \o s.description
    \o <<"\n\n## Technology Stack\n">>
    \o joinPieces([i \in DOMAIN s.technologies.suggested |->
                     <<"- ", s.technologies.suggested[i]>>], "\n")
    \o <<"\n\n## Core Functional Requirements\n">>
    \o joinPieces([i \in DOMAIN s.features |->
                     <<"### FR", ToString(i), ": ", s.features[i],
                       "\n- Implementation of ", s.features[i],
                       "\n- User interface components\n- Backend service integration">>],
                  "\n\n")
    \o <<"\n\n## Non-Functional Requirements\n">>
    \o joinPieces([i \in DOMAIN s.requirements |-> <<"- ", s.requirements[i]>>], "\n")
    \o <<"\n\n## Technical Constraints\n">>
    \o joinPieces([i \in DOMAIN s.constraints |-> <<"- ", s.constraints[i]>>], "\n")
    \o <<"\n\n## Acceptance Criteria\n">>
    \o joinPieces([i \in DOMAIN s.acceptanceCriteria |->
                     <<ToString(i), ". ">> \o s.acceptanceCriteria[i]], "\n")
    \o <<"\n\n## Success Metrics\n">>

generatePseudocodeContent(phaseNumber, s) ==
    Heading(phaseNumber, "Pseudocode", s.projectName)
    \o <<"\n\n## Core Algorithm Design\n\n">>
    \o joinPieces([i \in DOMAIN s.features |->
                     <<"### ", s.features[i], " Flow\nFUNCTION handle",
                       StripWhitespace(s.features[i]), "():\n  BEGIN ... END\n">>],
                  "\n")
    \o <<"\n\n## Data Structures\nSTRUCTURE User ...\nSTRUCTURE ",
         StripWhitespace(s.projectName), "Data:\n ...\n\n## Error Handling\n">>

\* Mutation: the component list is written in reverse order.
generateArchitectureContent_reversedComponents(phaseNumber, s) ==
    LET suggested == s.technologies.suggested
        databases == {"PostgreSQL", "MySQL", "MongoDB"}
        hasDatabase == \E i \in DOMAIN suggested : suggested[i] \in databases
        hasCache == \E i \in DOMAIN suggested : suggested[i] = "Redis"
        complexity == determineComplexity(s)
        isComplex == complexity = "high" \/ Len(s.requirements) > 3
    IN  Heading(phaseNumber, "Architecture", s.projectName)
        \o <<"\n\n## System Architecture\nFrontend (",
             FindOr(suggested, {"React", "Vue", "Angular"}, "React"),
             ")\n    |\nAPI Gateway\n    |">>
        \o (IF isComplex
            THEN <<"\nMicroservices Architecture\n    Auth Service\n    Core Service\n    Notification Service">>
            ELSE <<"\nBackend Service (",
                   FindOr(suggested, {"Node.js", "Express"}, "Node.js"), ")">>)
        \o (IF hasCache THEN <<"\n    |\nCache Layer (Redis)">> ELSE <<>>)
        \o (IF hasDatabase
            THEN <<"\n    |\nDatabase (", FindOr(suggested, databases, "PostgreSQL"), ")">>
            ELSE <<>>)
        \o <<"\n\n## Component Structure\n">>
        \o joinPieces([i \in DOMAIN suggested |->
                         <<"- ", suggested[Len(suggested) + 1 - i], ": ",
                           getTechnologyDescription(suggested[Len(suggested) + 1 - i])>>],
                      "\n")
        \o <<"\n\n## Security Architecture\n", "\n## Scalability Considerations\n">>

generateArchitectureContent(phaseNumber, s) ==
    LET suggested == s.technologies.suggested
        databases == {"PostgreSQL", "MySQL", "MongoDB"}
        hasDatabase == \E i \in DOMAIN suggested : suggested[i] \in databases
        hasCache == \E i \in DOMAIN suggested : suggested[i] = "Redis"
        complexity == determineComplexity(s)
        isComplex == complexity = "high" \/ Len(s.requirements) > 3
    IN  Heading(phaseNumber, "Architecture", s.projectName)
        \o <<"\n\n## System Architecture\nFrontend (",
             FindOr(suggested, {"React", "Vue", "Angular"}, "React"),
             ")\n    |\nAPI Gateway\n    |">>
        \o (IF isComplex
            THEN <<"\nMicroservices Architecture\n    Auth Service\n    Core Service\n    Notification Service">>
            ELSE <<"\nBackend Service (",
                   FindOr(suggested, {"Node.js", "Express"}, "Node.js"), ")">>)
        \o (IF hasCache THEN <<"\n    |\nCache Layer (Redis)">> ELSE <<>>)
        \o (IF hasDatabase
            THEN <<"\n    |\nDatabase (", FindOr(suggested, databases, "PostgreSQL"), ")">>
            ELSE <<>>)
        \o <<"\n\n## Component Structure\n">>
        \o joinPieces([i \in DOMAIN suggested |->
                         <<"- ", suggested[i], ": ",
                           getTechnologyDescription(suggested[i])>>], "\n")
        \o <<"\n\n## Security Architecture\n", "\n## Scalability Considerations\n">>

generateRefinementContent(phaseNumber, s) ==
    Heading(phaseNumber, "Refinement", s.projectName)
    \o <<"\n\n## Test-Driven Development Plan\n", "\n## Testing Strategy\n### Unit Tests (Target: 90% coverage)\n">>
    \o joinPieces([i \in DOMAIN s.features |->
                     <<"- ", s.features[i], " service tests\n- ", s.features[i],
                       " validation tests\n- ", s.features[i], " error handling tests">>],
                  "\n")
    \o <<"\n\n### Integration Tests\n">>
    \o joinPieces([i \in DOMAIN s.features |->
                     <<"- ", s.features[i], " API endpoint tests\n- ", s.features[i],
                       " database interaction tests">>], "\n")
    \o <<"\n\n### End-to-End Tests\n">>
    \o joinPieces([i \in DOMAIN s.features |->
                     <<"- ", s.features[i], " user workflow tests">>], "\n")
    \o <<"\n\n## Performance Optimization\n", "\n## Code Quality Standards\n",
         "\n## Monitoring and Logging\n">>

generateCompletionContent(phaseNumber, s) ==
    Heading(phaseNumber, "Completion", s.projectName)
    \o <<"\n\n## Deployment Strategy\n", "\n## Documentation\n### User Documentation\n- User guide for ",
         LowerCodes(s.projectName), "\n", "\n## Maintenance and Support\n",
         "\n## Success Criteria Validation\n">>
    \o joinPieces([i \in DOMAIN s.acceptanceCriteria |->
                     <<ToString(i), ". [done] ">> \o s.acceptanceCriteria[i]], "\n")
    \o <<"\n\n## Project Handover\n">>

\* A thrown Error (a rejected promise), by its message.
Error(message) == [error |-> message]

\* A returned value (a fulfilled promise).
Resolved(value) == [value |-> value]

IsError(value) == "error" \in DOMAIN value

generatePhaseContent(phase, s) ==
    LET phaseNumber == PhaseNumberOf(phase)
    IN  CASE phase = "specification" ->
                Resolved(generateSpecificationContent(phaseNumber, s))
          [] phase = "pseudocode" ->
                Resolved(generatePseudocodeContent(phaseNumber, s))
          [] phase = "architecture" ->
                Resolved(generateArchitectureContent(phaseNumber, s))
          [] phase = "refinement" ->
                Resolved(generateRefinementContent(phaseNumber, s))
          [] phase = "completion" ->
                Resolved(generateCompletionContent(phaseNumber, s))
          [] OTHER -> Error("Unknown phase: " \o phase)

\* Mutation: the phase name is not checked.
IsValidPhase_unchecked(phase) == TRUE

\* includes(phase) on validPhases
IsValidPhase(phase) == \E i \in DOMAIN validPhases : validPhases[i] = phase

\* The SparcFile built around generated content (generatedAt, the wall clock
\* time, is left out).
SparcFile(phase, content, s) ==
    [phase |-> phase,
     content |-> content,
     metadata |-> [projectName |-> s.projectName,
                   complexity |-> determineComplexity(s),
                   phase |-> phase,
                   technologies |-> s.technologies.suggested]]

\* generatePhase, given what awaiting generatePhaseContent produced (Resolved
\* content, or the Error it rejected with).
generatePhase(phase, s, content) ==
    IF ~IsValidPhase(phase) THEN Error("Invalid phase name")
    ELSE IF IsError(content) THEN content
    ELSE SparcFile(phase, content.value, s)

\* Mutation: no catch block, the original error propagates.
AllPhasesFailure_uncaught(error) == error

\* The error generateAllPhases rethrows from its catch block.
AllPhasesFailure(error) == Error("Failed to generate SPARC documentation")

\* ------------------------------------------------------ scaffold files
\* text.toLowerCase().replace(/\s+/g, '-'), on the code units of a table string:
\* every maximal run of white space becomes one "-".
HyphenLower(text) ==
    LET lower == LowerCodes(text)
        kept == {i \in DOMAIN lower :
                    lower[i] \notin WhiteSpaceCodes
                    \/ i = 1 \/ lower[i - 1] \notin WhiteSpaceCodes}
        pick[n \in 0..Len(lower)] ==
            IF n = 0 THEN <<>>
            ELSE IF n \notin kept THEN pick[n - 1]
            ELSE Append(pick[n - 1],
                        IF lower[n] \in WhiteSpaceCodes THEN 45 ELSE lower[n])
    IN  pick[Len(lower)]

\* list.map(f).join('')
RECURSIVE concatPieces(_)
concatPieces(list) ==
    IF list = <<>> THEN <<>> ELSE Head(list) \o concatPieces(Tail(list))

FeatureSections(s) ==
    concatPieces([i \in DOMAIN s.features |->
                    <<"\n<section>\n<h2>", s.features[i],
                      "</h2>\n<p>Implementation for ", s.features[i],
                      " goes here</p>\n</section>">>])

generatePackageJson(s) ==
    <<"{ name: ", HyphenLower(s.projectName), ", version: 1.0.0, description: ">>
    \o s.description \o <<", main: src/index.tsx, scripts, react dependencies }">>

generateVuePackageJson(s) ==
    <<"{ name: ", HyphenLower(s.projectName), ", version: 1.0.0, description: ">>
    \o s.description \o <<", scripts, vue dependencies }">>

generateReactApp(s) ==
    <<"import React from 'react';\n ... <h1>", s.projectName, "</h1>\n<p>">>
    \o s.description \o <<"</p>\n ... <main>">> \o FeatureSections(s)
    \o <<"</main>\n ... export default App;">>

generateVueApp(s) ==
    <<"<template>\n ... <h1>", s.projectName, "</h1>\n<p>">>
    \o s.description \o <<"</p>\n ... <main>">> \o FeatureSections(s)
    \o <<"</main>\n</template>\n<script lang=ts> ... projectName: '", s.projectName,
         "', description: '">> \o s.description \o <<"' ... </script>">>

generateVanillaIndex(s) ==
    <<"<!DOCTYPE html>\n ... <title>", s.projectName, "</title>\n ... <h1>",
      s.projectName, "</h1>\n<p>">>
    \o s.description \o <<"</p>\n ... <main>">> \o FeatureSections(s)
    \o <<"</main>\n</body>\n</html>">>

generateComponentIndex(s) ==
    <<"// Component exports for ", s.projectName, "\n">>
    \o joinPieces([i \in DOMAIN s.features |->
                     <<"export { default as ", StripWhitespace(s.features[i]),
                       " } from './", StripWhitespace(s.features[i]), "';">>], "\n")
    \o <<"\n">>

generateTestSetup(framework) ==
    <<"// Test setup for ", framework, "\nimport '@testing-library/jest-dom';\n ...">>

generateFeatureTest(feature, framework) ==
    <<"import { render, screen } from '@testing-library/react';\nimport { ",
      StripWhitespace(feature), " } from '../src/components';\n\ndescribe('",
      feature, "', ...)">>

generateReadme(s) ==
    <<"# ", s.projectName, "\n\n">> \o s.description \o <<"\n\n## Features\n\n">>
    \o joinPieces([i \in DOMAIN s.features |-> <<"- ", s.features[i]>>], "\n")
    \o <<"\n\n## Technologies\n\n">>
    \o joinPieces([i \in DOMAIN s.technologies.suggested |->
                     <<"- ", s.technologies.suggested[i]>>], "\n")
    \o <<"\n\n## Getting Started\n ...", "\n\n## Requirements\n\n">>
    \o joinPieces([i \in DOMAIN s.requirements |-> <<"- ", s.requirements[i]>>], "\n")
    \o <<"\n\n## Constraints\n\n">>
    \o joinPieces([i \in DOMAIN s.constraints |-> <<"- ", s.constraints[i]>>], "\n")
    \o <<"\n\n## License\n\nMIT\n">>

generateContributing == <<"# Contributing Guide\n ...">>

GeneratedFile(name, content, type) == [name |-> name, content |-> content, type |-> type]

generateFrameworkFiles(framework, s) ==
    CASE framework = "react" ->
            <<GeneratedFile(<<"package.json">>, generatePackageJson(s), "configuration"),
              GeneratedFile(<<"src/App.tsx">>, generateReactApp(s), "component"),
              GeneratedFile(<<"src/components/index.ts">>, generateComponentIndex(s),
                            "index")>>
      [] framework = "vue" ->
            <<GeneratedFile(<<"package.json">>, generateVuePackageJson(s),
                            "configuration"),
              GeneratedFile(<<"src/App.vue">>, generateVueApp(s), "component")>>
      [] OTHER ->
            <<GeneratedFile(<<"index.html">>, generateVanillaIndex(s), "html")>>

generateTestFiles(framework, s) ==
    <<GeneratedFile(<<"tests/setup.ts">>, generateTestSetup(framework), "test")>>
    \o [i \in DOMAIN s.features |->
          GeneratedFile(<<"tests/", HyphenLower(s.features[i]), ".test.ts">>,
                        generateFeatureTest(s.features[i], framework), "test")]

generateDocumentationFiles(s) ==
    <<GeneratedFile(<<"README.md">>, generateReadme(s), "documentation"),
      GeneratedFile(<<"CONTRIBUTING.md">>, generateContributing, "documentation")>>

\* spec.requestMetadata?.framework || 'react'
FrameworkOf(s) ==
    IF "requestMetadata" \in DOMAIN s /\ s.requestMetadata.framework # ""
    THEN s.requestMetadata.framework ELSE "react"

\* spec.requestMetadata?.includeTests || true
IncludeTestsOf(s) ==
    IF "requestMetadata" \in DOMAIN s /\ s.requestMetadata.includeTests
    THEN s.requestMetadata.includeTests ELSE TRUE

\* spec.requestMetadata?.includeDocs || true
IncludeDocsOf(s) ==
    IF "requestMetadata" \in DOMAIN s /\ s.requestMetadata.includeDocs
    THEN s.requestMetadata.includeDocs ELSE TRUE

\* The phase documents as GeneratedFiles, in the order of the sparcFiles array.
DocumentationOf(files) ==
    [i \in DOMAIN files |->
        GeneratedFile(<<files[i].phase, ".md">>, files[i].content, "documentation")]

\* The content of the last file of the given phase, '' when there is none.
ContentOfPhase(files, phase) ==
    LET hits == {i \in DOMAIN files : files[i].phase = phase}
    IN  IF hits = {} THEN <<>> ELSE files[Max(hits)].content

\* Mutation: the framework files are pushed before the phase documents.
generateOutput_scaffoldFirst(s, files) ==
    LET framework == FrameworkOf(s)
    IN  [files |-> generateFrameworkFiles(framework, s)
                   \o DocumentationOf(files)
                   \o (IF IncludeTestsOf(s) THEN generateTestFiles(framework, s)
                       ELSE <<>>)
                   \o (IF IncludeDocsOf(s) THEN generateDocumentationFiles(s) ELSE <<>>),
         specification |-> ContentOfPhase(files, "specification"),
         architecture |-> ContentOfPhase(files, "architecture")]

\* generate, from the point where generateAllPhases has returned files.
generateOutput(s, files) ==
    LET framework == FrameworkOf(s)
    IN  [files |-> DocumentationOf(files)
                   \o generateFrameworkFiles(framework, s)
                   \o (IF IncludeTestsOf(s) THEN generateTestFiles(framework, s)
                       ELSE <<>>)
                   \o (IF IncludeDocsOf(s) THEN generateDocumentationFiles(s) ELSE <<>>),
         specification |-> ContentOfPhase(files, "specification"),
         architecture |-> ContentOfPhase(files, "architecture")]

\* The error generate rethrows from its catch block.
GenerateFailure(error) == Error("SPARC generation failed: " \o error.error)

\* Mutation: no catch block, the original error propagates.
StructuredSpecFailure_uncaught(error) == error

\* The error generateStructuredSpec rethrows from its catch block.
StructuredSpecFailure(error) == Error("Failed to process input")

\* -------------------------------------------------------------- AIService
maxPromptLength == 10000
maxRetries == 3
retryDelay == 1000

\* What a provider call settles with: it fulfils with a string or with null, or
\* it rejects with an object that may carry a status and a message.
Fulfilled(content) == [content |-> content]
FulfilledNull == [content |-> <<>>, null |-> TRUE]
Rejected(status, message) == [status |-> status, message |-> message]
RejectedError(message) == [message |-> message]
RejectedEmpty == [rejected |-> TRUE]

IsFulfilled(outcome) == "content" \in DOMAIN outcome

\* error.status === status
HasStatus(error, statuses) == "status" \in DOMAIN error /\ error.status \in statuses

\* AIService.validateInput: the error message, or Null.
AIValidationError(p, prov) ==
    IF StrLength(trim(p)) = 0 THEN [message |-> "Prompt is required"]
    ELSE IF StrLength(p) > maxPromptLength
    THEN [message |-> "Prompt exceeds maximum length"]
    ELSE IF prov \notin {"openai", "claude"}
    THEN [message |-> "Unsupported AI provider"]
    ELSE Null

AIFailure(message) == [success |-> FALSE, content |-> <<>>, error |-> message]

handleError(error) ==
    AIFailure(IF HasStatus(error, {401, 403})
              THEN "Authentication failed - please check API keys"
              ELSE IF HasStatus(error, {429})
              THEN "Rate limit exceeded - please try again later"
              ELSE IF HasStatus(error, {402})
              THEN "Quota exceeded - please check your billing"
              ELSE IF "message" \in DOMAIN error /\ error.message # ""
              THEN error.message
              ELSE "Unknown error occurred")

\* !content
IsFalsyContent(outcome) == "null" \in DOMAIN outcome \/ outcome.content = <<>>

\* sanitizeResponse on a truthy content.
sanitizeResponse(content) == trim(ReplaceTags(ReplaceScript(content)))

\* generateContent after callAIWithRetry has returned the content.
ContentResult(outcome) ==
    IF IsFalsyContent(outcome)
    THEN handleError([message |-> "Invalid response from AI service"])
    ELSE [success |-> TRUE, content |-> sanitizeResponse(outcome.content)]

\* Mutation: authentication errors are retried like any other error.
NoRetry_never(error) == FALSE

\* The errors callAIWithRetry rethrows without retrying.
NoRetry(error) == HasStatus(error, {401, 403})

\* Mutation: the delay does not grow.
BackoffDelay_constant(n) == retryDelay

\* The wait after the failed attempt n.
BackoffDelay(n) == retryDelay * 2 ^ (n - 1)

\* ------------------------------------------------------ POST /api/generate
\* What process returns from its catch block.
ProcessFailure(error) ==
    [isValid |-> FALSE, errors |-> <<"Processing failed: " \o error.error>>,
     data |-> Null]

\* process, whose call of generateStructuredSpec either returns or throws.
ProcessOutcome(request, throws) ==
    IF throws /\ validateInput(request.description).isValid
    THEN ProcessFailure(StructuredSpecFailure(Error("Processing failed")))
    ELSE process(request)

\* res.status(400).json(body)
BadRequest(body) == [status |-> 400, body |-> body]

\* The response of the handler's catch block; generationTime is left out.
ErrorResponse(error) ==
    [status |-> 500, body |-> [error |-> "Generation failed", message |-> error.error]]

\* res.json(response); generationTime and timestamp are left out.
OkResponse(output) == [status |-> 200, body |-> output]

\* generateAllPhases run to its end without a rejection.
AllPhases(s) ==
    [i \in DOMAIN validPhases |->
        generatePhase(validPhases[i], s, generatePhaseContent(validPhases[i], s))]

\* The response to a request that is served alone, when nothing throws.
ServeAlone(request) ==
    IF StrLength(trim(request.description)) = 0
    THEN BadRequest([error |-> "Feature description is required"])
    ELSE LET processedInput == process(request)
         IN  IF ~processedInput.isValid
             THEN BadRequest([error |-> "Invalid input",
                              details |-> processedInput.errors])
             ELSE OkResponse(generateOutput(processedInput.data,
                                            AllPhases(processedInput.data)))

\* Mutation: the files array is a field of the generator, shared by all calls.
FilesOwner_shared(r) == 1

\* The request whose handler owns the files array that the generateAllPhases
\* call made for request r pushes to: the array is a local of that call.
FilesOwner(r) == r

\* ------------------------------------------------------------ the system
\* No value yet.
NoResult == [none |-> TRUE]

\* Fragments typed while exercising the validator: markup in both cases, pieces
\* that nest into markup, white space, U+FFFD, a surrogate pair and long runs.
ValidateFragments ==
    { Lit(Utf16["<script>"]), Lit(Utf16["</script>"]), Lit(Utf16["<SCRIPT>"]),
      Lit(Utf16["<"]), Lit(Utf16["<b>"]), Lit(Utf16["script>"]),
      Lit(<<10>>), Lit(Utf16[" "]), Lit(<<65533>>), Lit(<<55357, 56960>>),
      Run(120, 9999), Run(32, 9999) }

\* Fragments typed while exercising the request pipeline: keywords and markup.
PipelineFragments ==
    { Lit(Utf16["todo"]), Lit(Utf16["blog "]), Lit(Utf16["application"]),
      Lit(Utf16["payment"]), Lit(Utf16["<script>"]), Lit(Utf16["</script>"]),
      Lit(Utf16["<b>"]) }

\* Fragments typed to compare inputs that mention the same keywords: a "Todo"
\* text of 48 characters, one more letter with and without a longer lowercase
\* form, markup, and keywords in small letters.
SignatureFragments ==
    { Lit(Utf16["Todo app"]) \o Run(120, 40), Lit(<<304>>), Lit(<<120>>),
      Lit(Utf16["<b>"]), Lit(Utf16["todo app"]), Lit(Utf16["blog application"]) }

\* Fragments typed while exercising the keyword rules: keywords of every rule of
\* categorizeProject and extractProjectName, keywords in mixed case, keywords
\* that only form across two fragments, and filler that takes a "todo" text to
\* 49 and 50 characters.
KeywordFragments ==
    { Lit(Utf16["e-commerce"]), Lit(Utf16["microservices"]),
      Lit(Utf16["financial trading"]), Lit(Utf16["payment processing"]),
      Lit(Utf16["Todo app"]), Run(120, 41), Lit(Utf16[" "]),
      Lit(Utf16["blog"]), Lit(Utf16["application"]),
      Lit(Utf16["Node.js, PostgreSQL, Redis, Docker"]), Lit(Utf16["react"]),
      Lit(Utf16["Multi-Factor Authentication"]) }

\* Fragments typed while exercising the generator on derived specs: a keyword
\* that raises the category complexity only, the three features, and the
\* technologies.
GeneratorFragments ==
    { Lit(Utf16["payment"]), Lit(Utf16["blog application"]),
      Lit(Utf16["user authentication"]), Lit(Utf16["Todo app"]),
      Lit(Utf16["Node.js, PostgreSQL, Redis, Docker"]) }

\* Fragments typed while exercising the scaffold emitter: features, one of them
\* too short to be a valid description on its own.
ScaffoldFragments ==
    { Lit(Utf16["blog application"]), Lit(Utf16["user authentication"]),
      Lit(Utf16["Todo app"]) }

\* The choices of the framework select and the states of the two checkboxes.
OptionChanges ==
    [name : {"framework"}, value : {"react", "vue", "angular", "svelte", "vanilla"}]
    \cup [name : {"includeTests", "includeDocs"}, value : BOOLEAN]

\* Prompts handed to generateContent: the empty string, blanks, a plain prompt
\* and one that is too long.
AIPrompts ==
    { <<>>, Run(32, 3), Lit(Utf16["blog application"]), Run(120, maxPromptLength + 1) }

\* Providers handed to generateContent: the two supported ones and one the
\* form offers but the service does not support.
AIProviders == {"openai", "claude", "google"}

\* What one provider call may settle with: text, text with markup, text that is
\* markup only, the empty string, null, and rejections with and without a
\* status or a message.
ProviderOutcomes ==
    { Fulfilled(Lit(Utf16["blog application"])),
      Fulfilled(Lit(Utf16["<b>"]) \o Lit(Utf16["blog "]) \o Lit(Utf16["</b>"])),
      Fulfilled(Lit(Utf16["<script>"]) \o Lit(Utf16["todo"]) \o Lit(Utf16["</script>"])),
      Fulfilled(<<>>), FulfilledNull,
      Rejected(401, "Invalid API key"), Rejected(403, "Forbidden"),
      Rejected(429, "Rate limit exceeded"), Rejected(402, "Quota exceeded"),
      Rejected(500, "Server error"), RejectedError("Network error"), RejectedEmpty }

\* Fragments typed while exercising the HTTP handler: blanks, a text that is too
\* short, a valid one, filler that makes a text too long and U+FFFD.
ServerFragments ==
    { Lit(Utf16[" "]), Lit(Utf16["Todo app"]), Lit(Utf16["blog application"]),
      Run(120, 9999), Lit(<<65533>>) }

\* The form's initial values for everything but the description.
FormDefaults ==
    [complexity |-> "medium", framework |-> "react", includeTests |-> TRUE,
     includeDocs |-> TRUE, aiProvider |-> "openai"]

\* The requests that may be in flight at once.
RequestIds == 1..MaxRequests

\* The bodies of the requests served concurrently: a blank description, one that
\* is too short, and two valid ones, for two frameworks.
ConcurrentBodies ==
    { [description |-> text] @@ [FormDefaults EXCEPT !.framework = framework] :
        text \in { Lit(Utf16[" "]), Lit(Utf16["Todo app"]),
                   Lit(Utf16["blog application"]),
                   Lit(Utf16["user authentication"]) \o Lit(Utf16["payment"]) },
        framework \in {"react", "vanilla"} }

\* A request that has not arrived.
NotArrived ==
    [pc |-> "absent", body |-> NoResult, processed |-> NoResult, phaseIndex |-> 0,
     sparcFiles |-> <<>>, response |-> NoResult]

Request == [description |-> description] @@ formData

\* Phase names a caller passes to generatePhase.
PhaseNames == {validPhases[i] : i \in DOMAIN validPhases} \cup {"invalid-phase"}

\* StructuredSpec values a caller hands to the generator directly: up to six
\* features, four requirements and two constraints, and technology lists with
\* and without a cache, a database, a known frontend and a repeated entry.
FeaturePool ==
    <<"blog application", "user authentication", "todo app", "shopping cart",
      "product catalog", "admin dashboard">>

RequirementPool ==
    <<"user registration", "payment processing", "order management",
      "email notifications">>

ConstraintPool == <<"< 10ms latency", "Multi-factor authentication">>

Prefixes(list) == {SubSeq(list, 1, n) : n \in 0..Len(list)}

SuppliedTechnologies ==
    { <<>>, <<"React", "Node.js">>, <<"Vue", "Express", "MongoDB", "Redis">>,
      <<"Angular", "MySQL", "PostgreSQL">>, <<"Redis", "Docker", "Redis">> }

SuppliedSpec(features, reqs, constraints, suggested) ==
    [projectName |-> "Web Application",
     description |-> <<"A comprehensive application featuring ">>
                     \o join(features, ", "),
     features |-> features,
     technologies |-> [suggested |-> suggested, alternatives |-> <<>>],
     requirements |-> reqs,
     constraints |-> constraints,
     acceptanceCriteria |-> <<>>,
     estimatedTimeline |->
        [phases |-> <<"Planning", "Development", "Testing", "Deployment">>,
         totalWeeks |-> 8]]

SuppliedSpecs ==
    { SuppliedSpec(features, reqs, constraints, suggested) :
        features \in Prefixes(FeaturePool), reqs \in Prefixes(RequirementPool),
        constraints \in Prefixes(ConstraintPool),
        suggested \in SuppliedTechnologies }

Init ==
    /\ description = <<>>
    /\ edits = 0
    /\ validation = NoResult
    /\ processed = NoResult
    /\ spec = NoResult
    /\ pc = "idle"
    /\ sparcFiles = <<>>
    /\ contentCalls = <<>>
    /\ calledPhase = ""
    /\ result = NoResult
    /\ answer = NoResult
    /\ formData = FormDefaults
    /\ aiPc = "idle"
    /\ prompt = <<>>
    /\ provider = ""
    /\ attempt = 0
    /\ providerCalls = <<>>
    /\ delays = <<>>
    /\ aiResult = NoResult
    /\ response = NoResult
    /\ inflight = [r \in RequestIds |-> NotArrived]

\* The user types: fragment is appended to the description.
handleInputChange(fragment) ==
    /\ pc = "idle"
    /\ edits < MaxFrags
    /\ description' = description \o fragment
    /\ edits' = edits + 1
    /\ UNCHANGED <<validation, processed, spec, pc, sparcFiles, contentCalls, calledPhase,
                   result, answer,
                   formData, response, aiVars, inflight>>

\* The user picks a framework or ticks a checkbox: the same change handler
\* stores the value under the field's name.
handleOptionChange(change) ==
    /\ pc = "idle"
    /\ formData[change.name] # change.value
    /\ formData' = [formData EXCEPT ![change.name] = change.value]
    /\ UNCHANGED <<description, edits, validation, processed, spec, pc, sparcFiles,
                   contentCalls, calledPhase, result, answer, response, aiVars, inflight>>

ValidateInput ==
    /\ pc = "idle"
    /\ validation' = validateInput(description)
    /\ pc' = "validated"
    /\ UNCHANGED <<description, edits, processed, spec, sparcFiles, contentCalls,
                   calledPhase, result, answer,
                   formData, response, aiVars, inflight>>

\* A call of process, whose call of generateStructuredSpec returns or throws.
Process(throws) ==
    /\ pc = "idle"
    /\ processed' = ProcessOutcome(Request, throws)
    /\ pc' = "processed"
    /\ UNCHANGED <<description, edits, validation, spec, sparcFiles, contentCalls,
                   calledPhase, result, answer,
                   formData, response, aiVars, inflight>>

\* A direct call of extractEntities.
ExtractEntities ==
    /\ pc = "idle"
    /\ answer' = extractEntities(description)
    /\ pc' = "extracted"
    /\ UNCHANGED <<description, edits, validation, processed, spec, sparcFiles,
                   contentCalls, calledPhase, result, formData, response, aiVars, inflight>>

\* A direct call of categorizeProject.
CategorizeProject ==
    /\ pc = "idle"
    /\ answer' = categorizeProject(description)
    /\ pc' = "categorized"
    /\ UNCHANGED <<description, edits, validation, processed, spec, sparcFiles,
                   contentCalls, calledPhase, result, formData, response, aiVars, inflight>>

\* A call of generateStructuredSpec.  Either every derivation step returns and
\* the spec is fulfilled, or one of them throws (extractEntities replaced by a
\* throwing implementation) and the catch block's error is the outcome.
GenerateStructuredSpec(throws) ==
    /\ pc = "idle"
    /\ IF throws
       THEN /\ spec' = StructuredSpecFailure(Error("Processing failed"))
            /\ pc' = "spec-rejected"
       ELSE /\ spec' = generateStructuredSpec(description)
            /\ pc' = "specified"
    /\ UNCHANGED <<description, edits, validation, processed, sparcFiles, contentCalls,
                   calledPhase, result, answer,
                   formData, response, aiVars, inflight>>

\* A programmatic caller, which does not use the form, builds a StructuredSpec
\* of its own.
SupplySpec(s) ==
    /\ pc = "idle"
    /\ edits = 0
    /\ spec' = s
    /\ pc' = "supplied"
    /\ UNCHANGED <<description, edits, validation, processed, sparcFiles, contentCalls,
                   calledPhase, result, answer,
                   formData, response, aiVars, inflight>>

\* A structured spec is at hand, from process, from generateStructuredSpec or
\* from the caller.
HasSpec ==
    \/ pc = "processed" /\ processed.isValid
    \/ pc = "specified"
    \/ pc = "supplied"

TheSpec == IF pc = "processed" \/ processed # NoResult THEN processed.data ELSE spec

\* generateAllPhases is entered: the files array is created.
GenerateAllPhases ==
    /\ HasSpec
    /\ pc' = "generating"
    /\ sparcFiles' = <<>>
    /\ UNCHANGED <<description, edits, validation, processed, spec, contentCalls,
                   calledPhase, result, answer,
                   formData, response, aiVars, inflight>>

\* generate is entered: it awaits generateAllPhases.
Generate ==
    /\ HasSpec
    /\ pc' = "generate"
    /\ sparcFiles' = <<>>
    /\ UNCHANGED <<description, edits, validation, processed, spec, contentCalls,
                   calledPhase, result, answer,
                   formData, response, aiVars, inflight>>

\* One iteration of the loop of generateAllPhases: generatePhase for the next
\* phase, whose content generation either yields the content or rejects.  The
\* fifth file ends the loop and the array is returned; a rejection is caught and
\* rethrown.  When generate is the caller it goes on in the same step: with the
\* array it emits the scaffold files, which may throw, and returns its bundle; a
\* rejection it catches and rethrows.  When the HTTP handler awaits generate it
\* goes on as well: it answers 200 with the bundle, or 500 from its catch block.
GeneratePhaseStep(rejects, emitFails) ==
    /\ pc \in {"generating", "generate", "post-generate"}
    /\ LET phase == validPhases[Len(sparcFiles) + 1]
           content == IF rejects THEN Error("AI service failed")
                      ELSE generatePhaseContent(phase, TheSpec)
           file == generatePhase(phase, TheSpec, content)
           failure == IF pc = "generating" THEN AllPhasesFailure(file)
                      ELSE GenerateFailure(AllPhasesFailure(file))
           output == IF emitFails
                     THEN GenerateFailure(Error("Scaffold emission failed"))
                     ELSE generateOutput(TheSpec, Append(sparcFiles, file))
       IN  /\ contentCalls' = Append(contentCalls, phase)
           /\ IF IsError(file)
              THEN /\ result' = failure
                   /\ pc' = CASE pc = "generating" -> "rejected"
                              [] pc = "generate" -> "generate-rejected"
                              [] OTHER -> "responded"
                   /\ response' = IF pc = "post-generate" THEN ErrorResponse(failure)
                                  ELSE response
                   /\ UNCHANGED sparcFiles
              ELSE /\ sparcFiles' = Append(sparcFiles, file)
                   /\ IF Len(sparcFiles') < Len(validPhases)
                      THEN UNCHANGED <<result, pc, response>>
                      ELSE IF pc = "generating"
                      THEN /\ result' = [files |-> sparcFiles']
                           /\ pc' = "returned"
                           /\ UNCHANGED response
                      ELSE /\ result' = output
                           /\ pc' = IF pc = "post-generate" THEN "responded"
                                    ELSE IF IsError(output) THEN "generate-rejected"
                                    ELSE "bundled"
                           /\ response' = IF pc = "generate" THEN response
                                          ELSE IF IsError(output)
                                          THEN ErrorResponse(output)
                                          ELSE OkResponse(output)
    /\ UNCHANGED <<description, edits, validation, processed, spec, calledPhase, answer,
                   formData, aiVars, inflight>>

\* A direct call of generatePhase.
GeneratePhase(phase) ==
    /\ HasSpec
    /\ result' = generatePhase(phase, TheSpec, generatePhaseContent(phase, TheSpec))
    /\ contentCalls' = IF IsValidPhase(phase) THEN Append(contentCalls, phase)
                       ELSE contentCalls
    /\ calledPhase' = phase
    /\ pc' = "phase"
    /\ UNCHANGED <<description, edits, validation, processed, spec, sparcFiles, answer,
                   formData, response, aiVars, inflight>>

\* POST /api/generate arrives with the form's request as its body.  The handler
\* runs up to its first answer or to the point where it awaits generate.
PostGenerate(throws) ==
    /\ pc = "idle"
    /\ IF StrLength(trim(description)) = 0
       THEN /\ response' = BadRequest([error |-> "Feature description is required"])
            /\ pc' = "responded"
            /\ UNCHANGED <<processed, sparcFiles>>
       ELSE LET processedInput == ProcessOutcome(Request, throws)
            IN  /\ processed' = processedInput
                /\ IF ~processedInput.isValid
                   THEN /\ response' = BadRequest([error |-> "Invalid input",
                                                   details |-> processedInput.errors])
                        /\ pc' = "responded"
                        /\ UNCHANGED sparcFiles
                   ELSE /\ pc' = "post-generate"
                        /\ sparcFiles' = <<>>
                        /\ UNCHANGED response
    /\ UNCHANGED <<description, edits, validation, spec, contentCalls, calledPhase,
                   result, answer, formData, aiVars, inflight>>

\* Request r arrives while others are in flight.  Its handler runs to its first
\* answer or to its first await: process has validated and built the spec.
Arrive(r, body) ==
    /\ inflight[r].pc = "absent"
    /\ inflight' =
         [inflight EXCEPT ![r] =
            IF StrLength(trim(body.description)) = 0
            THEN [@ EXCEPT !.pc = "done", !.body = body,
                           !.response =
                              BadRequest([error |-> "Feature description is required"])]
            ELSE [@ EXCEPT !.pc = "processing", !.body = body,
                           !.processed = process(body)]]
    /\ UNCHANGED <<appVars, aiVars>>

\* The handler of request r resumes after process: it answers 400 or calls
\* generate, whose generateAllPhases creates its files array and starts the loop.
ResumeAfterProcess(r) ==
    /\ inflight[r].pc = "processing"
    /\ inflight' =
         IF ~inflight[r].processed.isValid
         THEN [inflight EXCEPT
                 ![r].pc = "done",
                 ![r].response = BadRequest([error |-> "Invalid input",
                                             details |-> inflight[r].processed.errors])]
         ELSE [inflight EXCEPT
                 ![r].pc = "generating",
                 ![r].phaseIndex = 0,
                 ![FilesOwner(r)].sparcFiles = <<>>]
    /\ UNCHANGED <<appVars, aiVars>>

\* The loop of generateAllPhases for request r resumes for one iteration: the
\* next phase's file is pushed to the files array.  After the last phase the
\* array is returned, generate emits the scaffold files and the handler answers.
ResumePhase(r) ==
    /\ inflight[r].pc = "generating"
    /\ LET s == inflight[r].processed.data
           phase == validPhases[inflight[r].phaseIndex + 1]
           file == generatePhase(phase, s, generatePhaseContent(phase, s))
           files == Append(inflight[FilesOwner(r)].sparcFiles, file)
       IN  inflight' =
             IF inflight[r].phaseIndex + 1 < Len(validPhases)
             THEN [inflight EXCEPT ![FilesOwner(r)].sparcFiles = files,
                                   ![r].phaseIndex = @ + 1]
             ELSE [inflight EXCEPT ![FilesOwner(r)].sparcFiles = files,
                                   ![r].phaseIndex = @ + 1,
                                   ![r].pc = "done",
                                   ![r].response = OkResponse(generateOutput(s, files))]
    /\ UNCHANGED <<appVars, aiVars>>

\* generateContent is called: the arguments are validated and, when they pass,
\* callAIWithRetry starts its loop.
GenerateContent(p, prov) ==
    /\ aiPc = "idle"
    /\ prompt' = p
    /\ provider' = prov
    /\ LET validationError == AIValidationError(p, prov)
       IN  IF validationError # Null
           THEN /\ aiResult' = AIFailure(validationError.message)
                /\ aiPc' = "done"
                /\ UNCHANGED attempt
           ELSE /\ aiPc' = "attempting"
                /\ attempt' = 1
                /\ UNCHANGED aiResult
    /\ UNCHANGED <<providerCalls, delays>>
    /\ UNCHANGED <<appVars, inflight>>

\* One iteration of the loop of callAIWithRetry: the provider call settles.  A
\* fulfilled call returns from the loop and generateContent builds its result;
\* a rejection is rethrown (for errors that are not retried and on the last
\* attempt) and generateContent's catch builds the result, or the delay starts.
ProviderAttempt(outcome) ==
    /\ aiPc = "attempting"
    /\ providerCalls' = Append(providerCalls, outcome)
    /\ IF IsFulfilled(outcome)
       THEN /\ aiResult' = ContentResult(outcome)
            /\ aiPc' = "done"
            /\ UNCHANGED delays
       ELSE IF NoRetry(outcome) \/ attempt = maxRetries
       THEN /\ aiResult' = handleError(outcome)
            /\ aiPc' = "done"
            /\ UNCHANGED delays
       ELSE /\ delays' = Append(delays, BackoffDelay(attempt))
            /\ aiPc' = "waiting"
            /\ UNCHANGED aiResult
    /\ UNCHANGED <<prompt, provider, attempt>>
    /\ UNCHANGED <<appVars, inflight>>

\* The delay's timer fires: the loop goes to its next iteration.
DelayElapsed ==
    /\ aiPc = "waiting"
    /\ attempt' = attempt + 1
    /\ aiPc' = "attempting"
    /\ UNCHANGED <<prompt, provider, providerCalls, delays, aiResult>>
    /\ UNCHANGED <<appVars, inflight>>

Next ==
    \/ \E fragment \in PipelineFragments : handleInputChange(fragment)
    \/ ValidateInput
    \/ \E throws \in BOOLEAN : Process(throws)
    \/ \E throws \in BOOLEAN : GenerateStructuredSpec(throws)
    \/ GenerateAllPhases
    \/ Generate
    \/ \E rejects, emitFails \in BOOLEAN : GeneratePhaseStep(rejects, emitFails)
    \/ \E phase \in PhaseNames : GeneratePhase(phase)

Spec == Init /\ [][Next]_vars

\* The validator alone, on markup-heavy text.
NextValidate ==
    \/ \E fragment \in ValidateFragments : handleInputChange(fragment)
    \/ ValidateInput

SpecValidate == Init /\ [][NextValidate]_vars

\* The keyword rules of the input processor, on keyword-heavy text.
NextKeywords ==
    \/ \E fragment \in KeywordFragments : handleInputChange(fragment)
    \/ ExtractEntities
    \/ CategorizeProject
    \/ \E throws \in BOOLEAN : GenerateStructuredSpec(throws)

SpecKeywords == Init /\ [][NextKeywords]_vars

\* generateStructuredSpec on texts that differ in case, markup and length.
NextSignature ==
    \/ \E fragment \in SignatureFragments : handleInputChange(fragment)
    \/ \E throws \in BOOLEAN : GenerateStructuredSpec(throws)

SpecSignature == Init /\ [][NextSignature]_vars

\* The scaffold emitter, on requests with every framework and checkbox state.
NextScaffold ==
    \/ \E fragment \in ScaffoldFragments : handleInputChange(fragment)
    \/ \E change \in OptionChanges : handleOptionChange(change)
    \/ \E throws \in BOOLEAN : Process(throws)
    \/ Generate
    \/ \E rejects, emitFails \in BOOLEAN : GeneratePhaseStep(rejects, emitFails)

SpecScaffold == Init /\ [][NextScaffold]_vars

\* The HTTP handler of POST /api/generate.
NextServer ==
    \/ \E fragment \in ServerFragments : handleInputChange(fragment)
    \/ \E throws \in BOOLEAN : PostGenerate(throws)
    \/ \E rejects, emitFails \in BOOLEAN : GeneratePhaseStep(rejects, emitFails)

SpecServer == Init /\ [][NextServer]_vars

\* Concurrent requests to POST /api/generate, interleaved at every await.
NextConcurrent ==
    \/ \E r \in RequestIds, body \in ConcurrentBodies : Arrive(r, body)
    \/ \E r \in RequestIds : ResumeAfterProcess(r)
    \/ \E r \in RequestIds : ResumePhase(r)

SpecConcurrent == Init /\ [][NextConcurrent]_vars

\* The AI service alone.
NextAI ==
    \/ \E p \in AIPrompts, prov \in AIProviders : GenerateContent(p, prov)
    \/ \E outcome \in ProviderOutcomes : ProviderAttempt(outcome)
    \/ DelayElapsed

SpecAI == Init /\ [][NextAI]_vars

\* The AI service with a scheduler that runs the call, settles every provider
\* call and fires every timer.
SpecAILive == SpecAI /\ WF_vars(NextAI)

\* The generator, on specs derived from typed text and on specs its caller
\* supplies.
NextGenerator ==
    \/ \E fragment \in GeneratorFragments : handleInputChange(fragment)
    \/ \E throws \in BOOLEAN : GenerateStructuredSpec(throws)
    \/ \E s \in SuppliedSpecs : SupplySpec(s)
    \/ GenerateAllPhases
    \/ Generate
    \/ \E rejects, emitFails \in BOOLEAN : GeneratePhaseStep(rejects, emitFails)
    \/ \E phase \in PhaseNames : GeneratePhase(phase)

SpecGenerator == Init /\ [][NextGenerator]_vars

\* ================================================================ claims
PhaseOrder == <<"specification", "pseudocode", "architecture", "refinement", "completion">>

PhaseTitles == <<"Specification", "Pseudocode", "Architecture", "Refinement", "Completion">>

\* C1: when generateAllPhases returns, it returns exactly 5 files in the order
\* specification, pseudocode, architecture, refinement, completion; each has
\* non-empty content whose heading carries its 1-based position, and metadata
\* whose projectName and technologies are those of the spec.
C1_AllPhasesComplete ==
    pc = "returned" =>
        /\ Len(result.files) = 5
        /\ \A i \in 1..5 :
            LET file == result.files[i]
            IN  /\ file.phase = PhaseOrder[i]
                /\ Len(file.content) > 0
                /\ file.content[1] = "# Phase "
                /\ file.content[2] = ToString(i)
                /\ file.metadata.projectName = TheSpec.projectName
                /\ file.metadata.technologies = TheSpec.technologies.suggested

C1_Witness ==
    /\ pc = "returned"
    /\ Len(result.files) = 5
    /\ TheSpec.projectName = "Blog Application"
    /\ Len(TheSpec.technologies.suggested) = 4

\* C2: generatePhase with the k-th valid phase name returns a file whose content
\* begins "# Phase k: <Title> - <projectName>"; with any other name it fails
\* with "Invalid phase name" and no content is generated.
C2_GeneratePhase ==
    pc = "phase" =>
        IF \E k \in 1..5 : PhaseOrder[k] = calledPhase
        THEN LET k == CHOOSE k \in 1..5 : PhaseOrder[k] = calledPhase
             IN  /\ "content" \in DOMAIN result
                 /\ result.phase = calledPhase
                 /\ SubSeq(result.content, 1, 6) =
                        <<"# Phase ", ToString(k), ": ", PhaseTitles[k], " - ",
                          TheSpec.projectName>>
        ELSE /\ result = [error |-> "Invalid phase name"]
             /\ contentCalls = <<>>

C2_Witness ==
    /\ pc = "phase"
    /\ calledPhase = "architecture"
    /\ "content" \in DOMAIN result
    /\ result.content[2] = "3"
    /\ result.content[6] = "Todo Application"

\* C3: when content generation fails for phase k during generateAllPhases, the
\* call rejects with exactly "Failed to generate SPARC documentation", no file
\* is returned, and content generation was invoked for phases 1..k only.
C3_FailureAborts ==
    pc = "rejected" =>
        /\ result = [error |-> "Failed to generate SPARC documentation"]
        /\ contentCalls = SubSeq(PhaseOrder, 1, Len(sparcFiles) + 1)
        /\ Len(contentCalls) \in 1..5

C3_Witness ==
    /\ pc = "rejected"
    /\ Len(sparcFiles) = 2
    /\ contentCalls = <<"specification", "pseudocode", "architecture">>

\* The text is empty or consists of white space only.
Blank(text) == \A i \in DOMAIN text : text[i].code \in WhiteSpaceCodes

\* message is among the errors.
HasError(errors, message) == \E i \in DOMAIN errors : errors[i] = message

\* The text contains a "<" that a ">" follows somewhere later.
TagShaped(text) ==
    \E i \in DOMAIN text : \E j \in DOMAIN text :
        i < j /\ text[i].code = 60 /\ text[j].code = 62

\* C4: validateInput on empty or white-space-only input returns isValid = false
\* with errors exactly <<"Input is required">> and nothing else: no length or
\* encoding message and no sanitizedInput.
C4_EmptyInputShortCircuit ==
    (pc = "validated" /\ Blank(description)) =>
        validation = [isValid |-> FALSE, errors |-> <<"Input is required">>]

C4_Witness ==
    /\ pc = "validated"
    /\ description # <<>>
    /\ Blank(description)
    /\ StrLength(description) < 10
    /\ validation.errors = <<"Input is required">>

\* C5: on input that is not blank the three checks are made independently, the
\* messages of the failing ones are appended in the order minimum length,
\* maximum length, encoding, and isValid is true exactly when there is none.
C5_ChecksAccumulate ==
    (pc = "validated" /\ ~Blank(description)) =>
        LET short == IF StrLength(description) < 10
                     THEN <<"Input must be at least 10 characters">> ELSE <<>>
            long == IF StrLength(description) > 10000
                    THEN <<"Input exceeds maximum length of 10000 characters">>
                    ELSE <<>>
            encoding == IF \E i \in DOMAIN description : description[i].code = 65533
                        THEN <<"Invalid character encoding detected">> ELSE <<>>
        IN  /\ validation.errors = short \o long \o encoding
            /\ validation.isValid = (validation.errors = <<>>)

C5_Witness ==
    /\ pc = "validated"
    /\ validation.errors = <<"Input must be at least 10 characters",
                             "Invalid character encoding detected">>
    /\ ~validation.isValid

\* C6 as stated: every non-empty string shorter than 10 characters gets the
\* minimum-length message.
C6_ShortNonEmptyRejected ==
    (pc = "validated" /\ description # <<>> /\ StrLength(description) < 10) =>
        HasError(validation.errors, "Input must be at least 10 characters")

\* C6 amended: every string shorter than 10 characters that is not blank (has a
\* character other than white space) gets the minimum-length message.
C6_ShortNonBlankRejected ==
    (pc = "validated" /\ ~Blank(description) /\ StrLength(description) < 10) =>
        HasError(validation.errors, "Input must be at least 10 characters")

C6_Witness ==
    /\ pc = "validated"
    /\ ~Blank(description)
    /\ StrLength(description) = 9
    /\ HasError(validation.errors, "Input must be at least 10 characters")

\* C7 as stated: every string longer than 10000 characters gets the
\* maximum-length message, and its result carries a sanitizedInput.
C7_LongRejectedAndSanitized ==
    (pc = "validated" /\ StrLength(description) > 10000) =>
        /\ HasError(validation.errors,
                    "Input exceeds maximum length of 10000 characters")
        /\ "sanitizedInput" \in DOMAIN validation

\* C7 amended: every string longer than 10000 characters that is not blank gets
\* the maximum-length message, and its result carries a sanitizedInput.
C7_LongNonBlankRejectedAndSanitized ==
    (pc = "validated" /\ ~Blank(description) /\ StrLength(description) > 10000) =>
        /\ HasError(validation.errors,
                    "Input exceeds maximum length of 10000 characters")
        /\ "sanitizedInput" \in DOMAIN validation

C7_Witness ==
    /\ pc = "validated"
    /\ StrLength(description) = 10001
    /\ ~Blank(description)
    /\ "sanitizedInput" \in DOMAIN validation
    /\ ~validation.isValid

\* C8: a sanitizedInput attached by validateInput contains no "<" followed
\* later by a ">", whatever the markup of the input (nested, malformed, or a
\* script element spanning a line break).
C8_NoTagInSanitized ==
    (pc = "validated" /\ "sanitizedInput" \in DOMAIN validation) =>
        ~TagShaped(validation.sanitizedInput)

\* "<<b>script>" was validated.
C8_Witness ==
    /\ pc = "validated"
    /\ description = Lit(<<60, 60, 98, 62, 115, 99, 114, 105, 112, 116, 62>>)
    /\ validation.sanitizedInput = Lit(<<115, 99, 114, 105, 112, 116, 62>>)

\* C9: sanitizing sanitized text changes nothing.
C9_SanitizeIdempotent ==
    pc = "validated" =>
        /\ sanitizeInput(sanitizeInput(description)) = sanitizeInput(description)
        /\ "sanitizedInput" \in DOMAIN validation =>
               sanitizeInput(validation.sanitizedInput) = validation.sanitizedInput

C9_Witness ==
    /\ pc = "validated"
    /\ "sanitizedInput" \in DOMAIN validation
    /\ TagShaped(description)
    /\ validation.sanitizedInput # <<>>
    /\ validation.sanitizedInput # description
    /\ sanitizeInput(validation.sanitizedInput) = validation.sanitizedInput

\* C10: process derives the structured spec from the sanitized text of the
\* validator, so only keywords of the sanitized text show in it.
C10_SpecFromSanitizedText ==
    (pc = "processed" /\ processed.isValid) =>
        processed.data = generateStructuredSpec(sanitizeInput(description))
                         @@ [requestMetadata |-> FormDefaults]

\* The lowercased description contains the word.
Mentions(word) == includes(toLowerCase(description), Utf16[word])

\* C11: categorizeProject returns one category by ordered rules, first match
\* wins: 'e-commerce', 'shopping' or 'payment' gives (e-commerce, high) even when
\* 'microservices' or 'financial trading' is present too; otherwise one of those
\* two gives (microservices, enterprise); otherwise 'todo' with a total length
\* below 50 gives (utility, low); otherwise (web-application, medium), which
\* includes 'todo' texts of 50 characters or more.
C11_CategoryByOrderedRules ==
    pc = "categorized" =>
        LET rule1 == Mentions("e-commerce") \/ Mentions("shopping") \/ Mentions("payment")
            rule2 == Mentions("microservices") \/ Mentions("financial trading")
            rule3 == Mentions("todo") /\ StrLength(toLowerCase(description)) < 50
        IN  /\ rule1 => answer = [type |-> "e-commerce", complexity |-> "high"]
            /\ ~rule1 /\ rule2
                 => answer = [type |-> "microservices", complexity |-> "enterprise"]
            /\ ~rule1 /\ ~rule2 /\ rule3
                 => answer = [type |-> "utility", complexity |-> "low"]
            /\ ~rule1 /\ ~rule2 /\ ~rule3
                 => answer = [type |-> "web-application", complexity |-> "medium"]
            /\ Mentions("todo") /\ StrLength(toLowerCase(description)) >= 50
               /\ ~rule1 /\ ~rule2
                 => answer.type = "web-application"

\* A text with a rule 1 and a rule 2 keyword was categorized as e-commerce.
C11_Witness ==
    /\ pc = "categorized"
    /\ Mentions("payment")
    /\ Mentions("microservices")
    /\ answer = [type |-> "e-commerce", complexity |-> "high"]

\* The members of a list.
Elements(list) == {list[i] : i \in DOMAIN list}

\* The list holds entries of the table, in table order, each at most once.
FollowsTable(list, table) ==
    list = SelectSeq(table, LAMBDA entry : entry \in Elements(list))

\* The technology names, in the order of techKeywords.
CanonicalNames == <<"Node.js", "PostgreSQL", "Redis", "Docker", "React">>

\* C12: extractEntities puts a keyword of its table into the list of its
\* category if and only if the keyword is a substring of the lowercased input;
\* each list follows the table's scan order without duplicates; technologies are
\* emitted in canonical casing, so 'Node.js, PostgreSQL, Redis, Docker' yields
\* those four names.
C12_KeywordListedIffSubstring ==
    pc = "extracted" =>
        /\ \A k \in {"blog application", "user authentication", "todo app"} :
              k \in Elements(answer.features) <=> Mentions(k)
        /\ FollowsTable(answer.features,
                        <<"blog application", "user authentication", "todo app">>)
        /\ \A i \in DOMAIN techKeywords :
              CanonicalNames[i] \in Elements(answer.technologies)
                 <=> Mentions(techKeywords[i])
        /\ FollowsTable(answer.technologies, CanonicalNames)
        /\ \A k \in Elements(requirements) :
              k \in Elements(answer.requirements) <=> Mentions(k)
        /\ FollowsTable(answer.requirements, requirements)
        /\ "< 10ms latency" \in Elements(answer.constraints)
              <=> Mentions("< 10ms latency")
        /\ "Multi-factor authentication" \in Elements(answer.constraints)
              <=> Mentions("multi-factor authentication")
        /\ FollowsTable(answer.constraints,
                        <<"< 10ms latency", "Multi-factor authentication">>)

\* The four technologies typed in mixed case were extracted in canonical casing.
C12_Witness ==
    /\ pc = "extracted"
    /\ description = Lit(Utf16["Node.js, PostgreSQL, Redis, Docker"])
    /\ answer.technologies = <<"Node.js", "PostgreSQL", "Redis", "Docker">>

\* No entry of the list occurs twice.
NoDuplicates(list) == \A i, j \in DOMAIN list : list[i] = list[j] => i = j

\* C13: technologies.suggested of the built spec is 'React', 'Node.js', then
\* 'PostgreSQL', 'Redis' exactly when the category complexity is high or
\* enterprise, then the extracted technologies, duplicates removed keeping the
\* first occurrence: no duplicate, 'React' first and 'Node.js' second.
C13_SuggestedTechnologies ==
    pc = "specified" =>
        LET suggested == spec.technologies.suggested
            complexity == categorizeProject(description).complexity
            base == IF complexity \in {"high", "enterprise"}
                    THEN <<"React", "Node.js", "PostgreSQL", "Redis">>
                    ELSE <<"React", "Node.js">>
            extracted == extractEntities(description).technologies
        IN  /\ NoDuplicates(suggested)
            /\ Len(suggested) >= Len(base)
            /\ suggested[1] = "React"
            /\ suggested[2] = "Node.js"
            /\ SubSeq(suggested, 1, Len(base)) = base
            /\ SubSeq(suggested, Len(base) + 1, Len(suggested))
                 = SelectSeq(extracted, LAMBDA tech : tech \notin Elements(base))

\* A high-complexity text naming 'react' and 'docker': the extracted 'React' was
\* dropped as a duplicate and 'Docker' follows the four base technologies.
C13_Witness ==
    /\ pc = "specified"
    /\ Mentions("payment")
    /\ Mentions("react")
    /\ Mentions("docker")
    /\ spec.technologies.suggested
         = <<"React", "Node.js", "PostgreSQL", "Redis", "Docker">>

\* C14: projectName of the built spec follows the first match in the fixed
\* order blog, e-commerce, todo, trading and is 'Web Application' when none
\* matches; a text with several of them takes the earliest of that order,
\* wherever they occur in the text.
C14_ProjectNameByFirstMatch ==
    pc = "specified" =>
        /\ Mentions("blog") => spec.projectName = "Blog Application"
        /\ ~Mentions("blog") /\ Mentions("e-commerce")
             => spec.projectName = "E-commerce Platform"
        /\ ~Mentions("blog") /\ ~Mentions("e-commerce") /\ Mentions("todo")
             => spec.projectName = "Todo Application"
        /\ ~Mentions("blog") /\ ~Mentions("e-commerce") /\ ~Mentions("todo")
           /\ Mentions("trading")
             => spec.projectName = "Trading Platform"
        /\ ~Mentions("blog") /\ ~Mentions("e-commerce") /\ ~Mentions("todo")
           /\ ~Mentions("trading")
             => spec.projectName = "Web Application"

\* 'blog' typed after 'financial trading' and 'Todo app' still names the project.
C14_Witness ==
    /\ pc = "specified"
    /\ description = Lit(Utf16["financial trading"]) \o Lit(Utf16["Todo app"])
                     \o Lit(Utf16["blog"])
    /\ spec.projectName = "Blog Application"

\* C15: an exception raised while generateStructuredSpec derives the spec is
\* caught and the call rejects with the generic error 'Failed to process input':
\* nothing of the original error is carried and no part of a spec is returned.
C15_DerivationFailureIsGeneric ==
    pc = "spec-rejected" =>
        /\ spec = [error |-> "Failed to process input"]
        /\ DOMAIN spec = {"error"}

\* A call on a typed description was rejected.
C15_Witness ==
    /\ pc = "spec-rejected"
    /\ description # <<>>
    /\ IsError(spec)

\* C16: generateStructuredSpec does not proceed with invalid input: called with
\* the empty string it rejects with an error instead of producing a spec.
C16_EmptyInputRejected ==
    (pc \in {"specified", "spec-rejected"} /\ description = <<>>) => IsError(spec)

\* C17: metadata.complexity of every generated SparcFile is recomputed from the
\* spec: 'low' when features <= 2 and neither requirements > 3 nor
\* constraints > 1, 'medium' when features <= 5 under the same condition, 'high'
\* otherwise; it is the same for all files of one run, and it may differ from
\* the category complexity of the same input.
C17_ComplexityRecomputed ==
    sparcFiles # <<>> =>
        LET features == Len(TheSpec.features)
            complex == Len(TheSpec.requirements) > 3 \/ Len(TheSpec.constraints) > 1
            complexityOf(i) == sparcFiles[i].metadata.complexity
        IN  /\ \A i, j \in DOMAIN sparcFiles : complexityOf(i) = complexityOf(j)
            /\ features <= 2 /\ ~complex => complexityOf(1) = "low"
            /\ features > 2 /\ features <= 5 /\ ~complex => complexityOf(1) = "medium"
            /\ features > 5 \/ complex => complexityOf(1) = "high"

\* The five files of a spec derived from 'payment': the category complexity of
\* the text is high, the recomputed complexity of every file is low.
C17_Witness ==
    /\ pc = "returned"
    /\ description = Lit(Utf16["payment"])
    /\ categorizeProject(description).complexity = "high"
    /\ Len(sparcFiles) = 5
    /\ \A i \in DOMAIN sparcFiles : sparcFiles[i].metadata.complexity = "low"

\* The document has the piece.
HasPiece(content, piece) == \E i \in DOMAIN content : content[i] = piece

\* The architecture document of the run, once it has been generated.
ArchitectureFile == sparcFiles[3]

\* C18: the architecture document has the microservices branch exactly when the
\* recomputed complexity is 'high' or there are more than 3 requirements, and
\* the single backend service line otherwise; it has the cache layer line
\* exactly when 'Redis' is suggested, and a database line exactly when one of
\* PostgreSQL, MySQL, MongoDB is suggested, naming the first of them in the
\* suggested list.
C18_ArchitectureBranches ==
    Len(sparcFiles) >= 3 =>
        LET content == ArchitectureFile.content
            suggested == TheSpec.technologies.suggested
            databases == {i \in DOMAIN suggested :
                            suggested[i] \in {"PostgreSQL", "MySQL", "MongoDB"}}
            microservices ==
                HasPiece(content, "\nMicroservices Architecture\n    Auth Service\n    Core Service\n    Notification Service")
        IN  /\ ArchitectureFile.phase = "architecture"
            /\ microservices <=> \/ ArchitectureFile.metadata.complexity = "high"
                                 \/ Len(TheSpec.requirements) > 3
            /\ HasPiece(content, "\nBackend Service (") <=> ~microservices
            /\ HasPiece(content, "\n    |\nCache Layer (Redis)")
                 <=> "Redis" \in Elements(suggested)
            /\ HasPiece(content, "\n    |\nDatabase (") <=> databases # {}
            /\ \A i \in DOMAIN content :
                  content[i] = "\n    |\nDatabase ("
                     => content[i + 1] = suggested[Min(databases)]

\* A supplied spec with four requirements and Angular, MySQL, PostgreSQL: the
\* document has the microservices branch, no cache line and the database line
\* naming MySQL.
C18_Witness ==
    /\ pc = "returned"
    /\ Len(TheSpec.requirements) = 4
    /\ TheSpec.technologies.suggested = <<"Angular", "MySQL", "PostgreSQL">>
    /\ \E i \in DOMAIN ArchitectureFile.content :
          /\ ArchitectureFile.content[i] = "\n    |\nDatabase ("
          /\ ArchitectureFile.content[i + 1] = "MySQL"
    /\ ~HasPiece(ArchitectureFile.content, "\n    |\nCache Layer (Redis)")
    /\ ~HasPiece(ArchitectureFile.content, "\nBackend Service (")

\* The members of a set of numbers, in ascending order.
RECURSIVE Ascending(_)
Ascending(S) == IF S = {} THEN <<>> ELSE <<Min(S)>> \o Ascending(S \ {Min(S)})

\* The technologies of the entries '- <technology>: <description>' between the
\* heading of the component list and the heading that follows it.
ComponentList(content) ==
    LET start == Min({i \in DOMAIN content : content[i] = "\n\n## Component Structure\n"})
        stop == Min({i \in DOMAIN content : content[i] = "\n\n## Security Architecture\n"})
        entries == Ascending({i \in (start + 1)..(stop - 1) : content[i] = "- "})
    IN  [k \in DOMAIN entries |-> content[entries[k] + 1]]

\* C19: each technology of spec.technologies.suggested appears verbatim, once
\* and in the same order, as an entry of the component list of the architecture
\* document.
C19_ComponentListIsSuggested ==
    Len(sparcFiles) >= 3 =>
        ComponentList(ArchitectureFile.content) = TheSpec.technologies.suggested

\* The document of a spec derived from text with five suggested technologies.
C19_Witness ==
    /\ pc = "returned"
    /\ description # <<>>
    /\ TheSpec.technologies.suggested
         = <<"React", "Node.js", "PostgreSQL", "Redis", "Docker">>
    /\ ComponentList(ArchitectureFile.content)
         = <<"React", "Node.js", "PostgreSQL", "Redis", "Docker">>

\* The name of the document of a phase.
DocumentName(phase) == <<phase, ".md">>

\* C20: the bundle returned by generate lists the five phase documents first,
\* named '<phase>.md' with type 'documentation' in the fixed phase order,
\* followed by the scaffold files; its specification field is the content of
\* specification.md and its architecture field the content of architecture.md.
C20_BundleLayout ==
    pc = "bundled" =>
        LET files == result.files
        IN  /\ Len(files) > Len(PhaseOrder)
            /\ \A i \in DOMAIN PhaseOrder :
                  /\ files[i].name = DocumentName(PhaseOrder[i])
                  /\ files[i].type = "documentation"
                  /\ files[i].content = sparcFiles[i].content
                  /\ files[i].content[1] = "# Phase "
            /\ \A i \in DOMAIN files :
                  i > Len(PhaseOrder)
                     => \A k \in DOMAIN PhaseOrder :
                           files[i].name # DocumentName(PhaseOrder[k])
            /\ \A i \in DOMAIN files :
                  /\ files[i].name = DocumentName("specification")
                       => result.specification = files[i].content
                  /\ files[i].name = DocumentName("architecture")
                       => result.architecture = files[i].content
            /\ DOMAIN result = {"files", "specification", "architecture"}

\* The bundle of a supplied spec with six features: five documents, then the
\* scaffold with one test file per feature.
C20_Witness ==
    /\ pc = "bundled"
    /\ Len(TheSpec.features) = 6
    /\ Len(result.files) = 17
    /\ result.files[3].name = DocumentName("architecture")
    /\ result.architecture = sparcFiles[3].content
    /\ result.files[6].name = <<"package.json">>

\* The files of the bundle that follow the five phase documents.
ScaffoldFiles == SubSeq(result.files, Len(PhaseOrder) + 1, Len(result.files))

\* The scaffold files the framework decides: those before the first test or
\* documentation file.
FrameworkFiles ==
    LET others == {i \in DOMAIN ScaffoldFiles :
                     ScaffoldFiles[i].type \in {"test", "documentation"}}
    IN  SubSeq(ScaffoldFiles, 1,
               IF others = {} THEN Len(ScaffoldFiles) ELSE Min(others) - 1)

\* The types of the files of a list.
TypesOf(files) == [i \in DOMAIN files |-> files[i].type]

\* The names of the files of a list.
NamesOf(files) == [i \in DOMAIN files |-> files[i].name]

\* C21: for framework react and for framework vue the scaffold emitter produces
\* a package manifest, a root component and an index file; for every other
\* framework (angular, svelte, vanilla) exactly one static HTML file
\* 'index.html'.
C21_ScaffoldPerFramework ==
    pc = "bundled" =>
        IF TheSpec.requestMetadata.framework \in {"react", "vue"}
        THEN /\ TypesOf(FrameworkFiles) = <<"configuration", "component", "index">>
             /\ FrameworkFiles[1].name = <<"package.json">>
        ELSE /\ NamesOf(FrameworkFiles) = << <<"index.html">> >>
             /\ TypesOf(FrameworkFiles) = <<"html">>

\* The name of the test file of a feature: the feature in lower case with white
\* space replaced by hyphens.
TestFileName(feature) == <<"tests/", HyphenLower(feature), ".test.ts">>

\* C22: generate emits tests/setup.ts and one test file per feature when, and
\* only when, the request's includeTests is true, and README.md and
\* CONTRIBUTING.md when, and only when, includeDocs is true; with both false the
\* bundle has no test file and no README.
C22_TestsAndDocsOnRequest ==
    pc = "bundled" =>
        LET names == Elements(NamesOf(ScaffoldFiles))
            features == Elements(TheSpec.features)
            includeTests == TheSpec.requestMetadata.includeTests
            includeDocs == TheSpec.requestMetadata.includeDocs
        IN  /\ <<"tests/setup.ts">> \in names <=> includeTests
            /\ \A feature \in features : TestFileName(feature) \in names <=> includeTests
            /\ (\E i \in DOMAIN ScaffoldFiles : ScaffoldFiles[i].type = "test")
                 <=> includeTests
            /\ <<"README.md">> \in names <=> includeDocs
            /\ <<"CONTRIBUTING.md">> \in names <=> includeDocs

\* The k-th provider call was made and rejected.
RejectedCall(k) == k \in DOMAIN providerCalls /\ ~IsFulfilled(providerCalls[k])

\* The k-th provider call was made and rejected with an authentication or
\* authorization status.
AuthRejectedCall(k) == RejectedCall(k) /\ HasStatus(providerCalls[k], {401, 403})

\* C23: for one generateContent call the provider is invoked at most 3 times;
\* after the k-th failed attempt (k = 1, 2) the service waits 1000 * 2^(k-1) ms
\* and then retries; the first successful attempt ends the loop; after the third
\* failure the error is reported without a further wait or attempt.
C23_RetryAfterEveryFailure ==
    /\ Len(providerCalls) <= 3
    /\ \A k \in {1, 2} :
          RejectedCall(k)
             => /\ Len(delays) >= k
                /\ delays[k] = 1000 * 2 ^ (k - 1)
                /\ aiPc = "done" => Len(providerCalls) > k
    /\ \A k \in DOMAIN providerCalls :
          IsFulfilled(providerCalls[k]) => Len(providerCalls) = k /\ aiPc = "done"
    /\ RejectedCall(3) => Len(delays) = 2 /\ aiPc = "done" /\ ~aiResult.success

\* What holds of the retry loop in every state: as C23, for failures other than
\* authentication and authorization errors, which end the call at once.
RetryInvariant ==
    /\ Len(providerCalls) <= 3
    /\ \A k \in {1, 2} :
          RejectedCall(k) /\ ~AuthRejectedCall(k)
             => /\ Len(delays) >= k
                /\ delays[k] = 1000 * 2 ^ (k - 1)
                /\ aiPc = "done" => Len(providerCalls) > k
    /\ \A k \in DOMAIN providerCalls :
          IsFulfilled(providerCalls[k]) \/ AuthRejectedCall(k)
             => Len(providerCalls) = k /\ aiPc = "done" /\ Len(delays) = k - 1
    /\ \A k \in DOMAIN providerCalls :
          IsFulfilled(providerCalls[k]) /\ ~IsFalsyContent(providerCalls[k])
             => aiResult.success
    /\ RejectedCall(3) => Len(delays) = 2 /\ aiPc = "done" /\ ~aiResult.success

\* C23 (amended): at most 3 provider calls; after the k-th failed attempt
\* (k = 1, 2) with an error other than 401 or 403 the service waits
\* 1000 * 2^(k-1) ms and retries; the first fulfilled attempt ends the loop, and
\* yields success when its content is not empty; after the third failure the
\* error is reported without a further wait or attempt; the call terminates.
C23_RetryUnlessAuthFailure == []RetryInvariant /\ <>(aiPc = "done")

\* Two failures, waits of 1000 and 2000 ms, and a third attempt that succeeded.
C23_Witness ==
    /\ aiPc = "done"
    /\ Len(providerCalls) = 3
    /\ HasStatus(providerCalls[1], {500})
    /\ RejectedCall(2)
    /\ IsFulfilled(providerCalls[3])
    /\ delays = <<1000, 2000>>
    /\ aiResult.success

\* C24: when a provider attempt fails with status 401 or 403, at whichever
\* attempt, no further provider call and no backoff wait follows, and
\* generateContent returns success=false with the error 'Authentication failed -
\* please check API keys'.
C24_AuthFailureEndsCall ==
    \A k \in DOMAIN providerCalls :
        AuthRejectedCall(k)
           => /\ Len(providerCalls) = k
              /\ Len(delays) = k - 1
              /\ aiPc = "done"
              /\ aiResult = [success |-> FALSE, content |-> <<>>,
                             error |-> "Authentication failed - please check API keys"]

\* A 403 at the second attempt, after one retried failure, ended the call.
C24_Witness ==
    /\ aiPc = "done"
    /\ Len(providerCalls) = 2
    /\ HasStatus(providerCalls[1], {500})
    /\ HasStatus(providerCalls[2], {403})
    /\ delays = <<1000>>
    /\ ~aiResult.success

\* C25: when a provider attempt fails with a rate-limit (429) or quota (402)
\* error the provider is not called again for that generateContent call and the
\* message for the status is surfaced; only 5xx failures are retried.
C25_NoRetryOnRateLimitOrQuota ==
    \A k \in DOMAIN providerCalls :
        /\ RejectedCall(k) /\ HasStatus(providerCalls[k], {429, 402})
              => /\ Len(providerCalls) = k
                 /\ aiPc = "done"
                 /\ aiResult.error
                      = IF providerCalls[k].status = 429
                        THEN "Rate limit exceeded - please try again later"
                        ELSE "Quota exceeded - please check your billing"
        /\ k < Len(providerCalls) => HasStatus(providerCalls[k], 500..599)

\* C28: a provider attempt that returns an empty or null response ends the
\* retry loop; generateContent makes no further provider call and returns
\* success=false with the error 'Invalid response from AI service'; and every
\* result with success=true carries non-empty content.
C28_EmptyResponseIsFailure ==
    /\ \A k \in DOMAIN providerCalls :
          IsFulfilled(providerCalls[k]) /\ IsFalsyContent(providerCalls[k])
             => /\ Len(providerCalls) = k
                /\ aiPc = "done"
                /\ aiResult = [success |-> FALSE, content |-> <<>>,
                               error |-> "Invalid response from AI service"]
    /\ aiPc = "done" /\ aiResult.success => aiResult.content # <<>>

\* C26: POST /generate answers 400 with details exactly for input errors
\* (missing, too short, too long or badly encoded description), 500 for every
\* other failure, including one raised while the structured spec is built,
\* while phases are synthesized or while scaffold files are emitted, and 200
\* with the bundle otherwise.
C26_StatusByFailureClass ==
    pc = "responded" =>
        LET inputError == ~validateInput(description).isValid
            otherFailure == \/ processed # NoResult /\ ~processed.isValid
                            \/ result # NoResult /\ IsError(result)
        IN  /\ response.status = 400 <=> inputError
            /\ response.status = 400 /\ ~Blank(description)
                 => response.body.details = validateInput(description).errors
            /\ ~inputError /\ otherFailure => response.status = 500
            /\ ~inputError /\ ~otherFailure
                 => response = [status |-> 200, body |-> result]

\* C27: generation requests are independent: for any interleaving of
\* concurrent requests served by the same InputProcessor and SparcGenerator
\* instances, the result of each request equals the result the same request
\* produces when run alone, and two requests with identical input produce
\* identical bundles (generatedAt, timestamp and generationTime left out).
C27_RequestsIndependent ==
    /\ \A r \in RequestIds :
          inflight[r].pc = "done" => inflight[r].response = ServeAlone(inflight[r].body)
    /\ \A r1, r2 \in RequestIds :
          /\ inflight[r1].pc = "done"
          /\ inflight[r2].pc = "done"
          /\ inflight[r1].body = inflight[r2].body
          => inflight[r1].response = inflight[r2].response

\* Two different valid requests were in their phase loops at the same time and
\* both have been answered with a bundle.
C27_Witness ==
    /\ \A r \in {1, 2} : inflight[r].pc = "done" /\ inflight[r].response.status = 200
    /\ inflight[1].body # inflight[2].body
    /\ inflight[1].response.body # inflight[2].response.body

\* C29: whenever validateInput returns isValid = true, the attached
\* sanitizedInput itself satisfies the length bounds: it is at least 10 and at
\* most 10000 characters long, and in particular never empty.
C29_SanitizedWithinBounds ==
    (validation # NoResult /\ validation.isValid)
        => /\ StrLength(validation.sanitizedInput) >= MIN_LENGTH
           /\ StrLength(validation.sanitizedInput) <= MAX_LENGTH

\* Every keyword the input processor looks for.
TableKeywords ==
    {"blog application", "user authentication", "todo app",
     "< 10ms latency", "multi-factor authentication",
     "e-commerce", "shopping", "payment", "microservices", "financial trading",
     "todo", "blog", "trading"}
    \cup Elements(techKeywords) \cup Elements(requirements)

\* The keywords that occur in the lowercased form of the text.
KeywordsIn(text) == {k \in TableKeywords : includes(toLowerCase(text), Utf16[k])}

\* The inputs a typed description is compared with.
ComparedInputs == {a \o b : a, b \in SignatureFragments \cup {<<>>}}

\* Every string the spec builder can emit: table entries and template parts.
TableStrings ==
    {"Blog Application", "E-commerce Platform", "Todo Application",
     "Trading Platform", "Web Application",
     "A comprehensive application featuring ", ", ",
     "blog application", "user authentication", "todo app",
     "React", "Node.js", "PostgreSQL", "Redis", "Docker",
     "< 10ms latency", "Multi-factor authentication",
     "User should be able to use ", " successfully",
     "Planning", "Development", "Testing", "Deployment"}
    \cup Elements(requirements)

\* Every string of the spec is a table entry or a template part.
OnlyTableStrings(s) ==
    /\ s.projectName \in TableStrings
    /\ Elements(s.description) \subseteq TableStrings
    /\ Elements(s.features) \subseteq TableStrings
    /\ Elements(s.technologies.suggested) \subseteq TableStrings
    /\ s.technologies.alternatives = <<>>
    /\ Elements(s.requirements) \subseteq TableStrings
    /\ Elements(s.constraints) \subseteq TableStrings
    /\ \A i \in DOMAIN s.acceptanceCriteria :
          Elements(s.acceptanceCriteria[i]) \subseteq TableStrings
    /\ Elements(s.estimatedTimeline.phases) \subseteq TableStrings

\* C30 (as stated): the structured spec depends on the input text only through
\* which keywords of the fixed tables occur in its lowercased form and whether
\* the input's length is below 50: two inputs that agree on these yield equal
\* specs, and every string in the spec comes from a fixed table or template.
C30_SpecByKeywordsAndInputLength ==
    pc = "specified" =>
        /\ \A other \in ComparedInputs :
              /\ KeywordsIn(other) = KeywordsIn(description)
              /\ (StrLength(other) < 50) = (StrLength(description) < 50)
              => generateStructuredSpec(other) = spec
        /\ OnlyTableStrings(spec)

\* C30 (amended): the structured spec depends on the input text only through
\* which keywords of the fixed tables occur in its lowercased form and whether
\* the length of that lowercased form is below 50: two inputs that agree on
\* these yield equal specs, and every string in the spec comes from a fixed
\* table or template, never from the raw input.
C30_SpecByKeywordsAndLowercasedLength ==
    pc = "specified" =>
        /\ \A other \in ComparedInputs :
              /\ KeywordsIn(other) = KeywordsIn(description)
              /\ (StrLength(toLowerCase(other)) < 50)
                    = (StrLength(toLowerCase(description)) < 50)
              => generateStructuredSpec(other) = spec
        /\ OnlyTableStrings(spec)

\* A spec was built from a text with markup in it, and a different text without
\* the markup mentions the same keywords and has the same length class.
C30_Witness ==
    /\ pc = "specified"
    /\ includes(description, Utf16["<b>"])
    /\ spec.features # <<>>
    /\ \E other \in ComparedInputs :
          /\ other # description
          /\ ~includes(other, Utf16["<b>"])
          /\ KeywordsIn(other) = KeywordsIn(description)
          /\ (StrLength(toLowerCase(other)) < 50)
                = (StrLength(toLowerCase(description)) < 50)

====
